---- MODULE Spec2Model ----
(***************************************************************************)
(* Model of the incremental export engine of the WealthBox CLI:            *)
(*   wealthbox/cli/export.py   (ExportCache, ExportMetadata, dirty-contact *)
(*                              detection, activity aggregation)           *)
(*   wealthbox/cli/contacts.py (the export-all batch driver)               *)
(*                                                                         *)
(* Conventions.  An optional value (Python None or a value) is a sequence  *)
(* of length at most one: <<>> is None and <<v>> is the value v.  Time is  *)
(* counted in whole days; a UTC offset is a whole number of the same unit. *)
(***************************************************************************)
EXTENDS Integers, Sequences, FiniteSets, TLC

VARIABLES
    \* ---- the remote CRM (what the client's requests answer) ----
    srvUpdated,     \* ids of the contacts the "updated_since" filter returns, in order
    srvContacts,    \* contact id -> contact record
    srvTasks,       \* every task, both completion states
    srvOpps,        \* every opportunity
    srvComments,    \* task id -> its comments
    srvActivity,    \* contact id -> the notes, events and workflows scoped to it
    \* ---- the process ----
    cache,          \* the ExportCache of the run
    issued,         \* request -> number of times it was sent to the API
    answered,       \* request -> number of times the API answered it
    input,          \* the argument a pure function under study is applied to
    call,           \* the last call of a function under study and its outcome
    ncalls,         \* number of such calls made so far
    \* ---- the batch driver (export_all_contacts) ----
    opts,           \* command-line options of the run
    pc,             \* position of the driver
    meta,           \* the in-memory ExportMetadata
    dirty_ids,      \* optional set of dirty contact ids
    exported_ids,   \* ids already handled in this run
    stats,          \* the counters of the summary
    queue,          \* the listing the current phase iterates over
    out,            \* what do_export did with each contact it was called on, in order
    \* ---- the output directory ----
    metaFile,       \* content of .export-meta.json
    prevFile,       \* content of .export-meta.json when the run or the save began
    files,          \* filename -> the document written to it
    clock           \* wall clock (datetime.now)

srvVars   == <<srvUpdated, srvContacts, srvTasks, srvOpps, srvComments, srvActivity,
               input>>
procVars  == <<cache, issued, answered, call, ncalls>>
batchVars == <<opts, pc, meta, dirty_ids, exported_ids, stats, queue, out>>
diskVars  == <<metaFile, prevFile, files>>
vars      == <<srvVars, procVars, batchVars, diskVars, clock>>

(***************************************************************************)
(* Bounds of the model                                                     *)
(***************************************************************************)
MaxTime == 4        \* creation dates range over 0..MaxTime
MaxId   == 3        \* contact ids range over 1..MaxId

None == <<>>
Some(v) == <<v>>
IsNone(o) == o = <<>>
Val(o) == o[1]

Times == 0..MaxTime
ContactIds == 1..MaxId

RECURSIVE SetToSeq(_)
SetToSeq(S) ==
    IF S = {} THEN <<>>
    ELSE LET m == CHOOSE x \in S : \A y \in S : x <= y
         IN <<m>> \o SetToSeq(S \ {m})

Range(s) == {s[i] : i \in DOMAIN s}

(***************************************************************************)
(* Dates.  A raw date is what the API puts in a date field; a datetime is  *)
(* what _parse_wb_date makes of it: a local time, and an offset when the   *)
(* text carried one.                                                       *)
(***************************************************************************)
RawAbsent == [fmt |-> "absent", local |-> 0, off |-> 0]
RawEmpty  == [fmt |-> "empty",  local |-> 0, off |-> 0]
RawJunk   == [fmt |-> "junk",   local |-> 0, off |-> 0]
RawWb(t, o)    == [fmt |-> "wb",    local |-> t, off |-> o]
RawIsoTz(t, o) == [fmt |-> "isotz", local |-> t, off |-> o]
RawIso(t)      == [fmt |-> "iso",   local |-> t, off |-> 0]
RawDay(t)      == [fmt |-> "day",   local |-> t, off |-> 0]

Naive(t)    == [local |-> t, aware |-> FALSE, off |-> 0]
Aware(t, o) == [local |-> t, aware |-> TRUE,  off |-> o]

\* export.py _parse_wb_date: the WB format, then ISO, then date-only; else None
_parse_wb_date(raw) ==
    CASE raw.fmt \in {"absent", "empty", "junk"} -> None
      [] raw.fmt = "wb"    -> Some(Aware(raw.local, raw.off))
      [] raw.fmt = "isotz" -> Some(Aware(raw.local, raw.off))
      [] raw.fmt = "iso"   -> Some(Naive(raw.local))
      [] raw.fmt = "day"   -> Some(Naive(raw.local))

\* dt.astimezone(timezone.utc).replace(tzinfo=None) when dt is aware, else dt
UtcNaive(dt) == IF dt.aware THEN dt.local - dt.off ELSE dt.local

IsAfterByLocalTime(raw, threshold) ==
    LET dt == _parse_wb_date(raw)
    IN  IF IsNone(dt) THEN FALSE
        ELSE Val(dt).local > threshold.local

\* export.py _is_after
_is_after(raw, threshold) ==
    LET dt == _parse_wb_date(raw)
    IN  IF IsNone(dt) THEN FALSE
        ELSE UtcNaive(Val(dt)) > UtcNaive(threshold)

\* last_export - timedelta(days=n): the offset is kept
MinusDays(dt, n) == [dt EXCEPT !.local = @ - n]

(***************************************************************************)
(* linked_to.  An entry is a mapping with an id, a mapping without one, or *)
(* something that is no mapping at all.  The field itself may be absent.   *)
(***************************************************************************)
Link(i)  == [dict |-> TRUE,  id |-> Some(i)]
LinkNoId == [dict |-> TRUE,  id |-> None]
LinkJunk == [dict |-> FALSE, id |-> None]

\* item.get("linked_to", [])
LinkedList(item) == IF IsNone(item.linked_to) THEN <<>> ELSE Val(item.linked_to)

\* export.py _collect_linked_ids
_collect_linked_ids(item) ==
    {Val(l.id) : l \in {x \in Range(LinkedList(item)) : x.dict /\ ~IsNone(x.id)}}

(***************************************************************************)
(* The API.  A request is a pair <<kind, argument>>.  A call is made under *)
(* a failure plan `fail`: the set of requests that raise when sent.  The   *)
(* state threaded through a call is st = [cache, issued, answered, exc];   *)
(* exc holds the request that raised, and nothing runs after it.           *)
(***************************************************************************)
ReqUpdated     == <<"contacts_updated_since", 0>>
ReqUsers       == <<"users", 0>>
ReqTasks(flag) == <<"tasks", flag>>          \* flag 0: completed=false, 1: completed=true
ReqOpps        == <<"opportunities", 0>>
ReqComments(t) == <<"task_comments", t>>
ReqContact(c)  == <<"contact", c>>
ReqNotes(c)    == <<"notes", c>>
ReqEvents(c)   == <<"events", c>>
ReqWorkflows(c) == <<"workflows", c>>
ReqList(n)     == <<"contacts_of_type", n>>  \* n: index of the type in ContactTypes

ContactTypes == <<"Household", "Person", "Trust", "Organization">>

TaskIds == {srvTasks[i].id : i \in DOMAIN srvTasks}

Requests ==
    {ReqUpdated, ReqUsers, ReqTasks(0), ReqTasks(1), ReqOpps}
        \cup {ReqComments(t) : t \in TaskIds}
        \cup {ReqContact(c) : c \in ContactIds}
        \cup {ReqNotes(c) : c \in ContactIds}
        \cup {ReqEvents(c) : c \in ContactIds}
        \cup {ReqWorkflows(c) : c \in ContactIds}
        \cup {ReqList(n) : n \in DOMAIN ContactTypes}

EmptyCache ==
    [user_map |-> None, all_tasks |-> None, all_opportunities |-> None,
     task_comments |-> <<>>]

\* v bound to a name for the rest of the computation: Let(v, LAMBDA x : e)
\* is e with x standing for the value of v
Let(v, F(_)) == CHOOSE y \in {F(x) : x \in {v}} : TRUE

Failed(st) == st.exc # <<>>

\* one request sent to the API: it raises if the plan says so; nothing is
\* sent once an exception is on its way up
Send(st, req, fail) ==
    IF Failed(st) THEN st
    ELSE IF req \in fail
         THEN [st EXCEPT !.issued[req] = @ + 1, !.exc = Some(req)]
         ELSE [st EXCEPT !.issued[req] = @ + 1, !.answered[req] = @ + 1]

\* client.api_request("tasks", params={"completed": flag})
TasksWithFlag(flag) == SelectSeq(srvTasks, LAMBDA t : t.completed = (flag = 1))

\* client.make_user_map("name")
UserMap == [u \in {1} |-> "Advisor"]

\* ExportCache.get_user_map
get_user_map(st, fail) ==
    IF Failed(st) \/ st.cache.user_map # None THEN st
    ELSE Let(Send(st, ReqUsers, fail), LAMBDA s1 :
             IF Failed(s1) THEN s1
             ELSE [s1 EXCEPT !.cache.user_map = Some(UserMap)])

\* the answer of each request is stored as it arrives
GetAllTasksStoresAsItGoes(st, fail) ==
    IF Failed(st) \/ st.cache.all_tasks # None THEN st
    ELSE Let(Send(st, ReqTasks(0), fail), LAMBDA s1 :
             IF Failed(s1) THEN s1
             ELSE Let(Send([s1 EXCEPT !.cache.all_tasks = Some(TasksWithFlag(0))],
                           ReqTasks(1), fail), LAMBDA s2 :
                      IF Failed(s2) THEN s2
                      ELSE [s2 EXCEPT !.cache.all_tasks =
                                          Some(TasksWithFlag(0) \o TasksWithFlag(1))]))

\* ExportCache.get_all_tasks: both requests, then the assignment
get_all_tasks(st, fail) ==
    IF Failed(st) \/ st.cache.all_tasks # None THEN st
    ELSE Let(Send(Send(st, ReqTasks(0), fail), ReqTasks(1), fail), LAMBDA s2 :
             IF Failed(s2) THEN s2
             ELSE [s2 EXCEPT !.cache.all_tasks =
                                 Some(TasksWithFlag(0) \o TasksWithFlag(1))])

GetTaskCommentsUncached(st, task_id, fail) ==
    IF Failed(st) THEN st
    ELSE Let(Send(st, ReqComments(task_id), fail), LAMBDA s1 :
             IF Failed(s1) THEN s1
             ELSE [s1 EXCEPT !.cache.task_comments =
                        (task_id :> srvComments[task_id]) @@ @])

\* ExportCache.get_task_comments
get_task_comments(st, task_id, fail) ==
    IF Failed(st) \/ task_id \in DOMAIN st.cache.task_comments THEN st
    ELSE Let(Send(st, ReqComments(task_id), fail), LAMBDA s1 :
             IF Failed(s1) THEN s1
             ELSE [s1 EXCEPT !.cache.task_comments =
                        (task_id :> srvComments[task_id]) @@ @])

\* ExportCache.get_all_opportunities
get_all_opportunities(st, fail) ==
    IF Failed(st) \/ st.cache.all_opportunities # None THEN st
    ELSE Let(Send(st, ReqOpps, fail), LAMBDA s1 :
             IF Failed(s1) THEN s1
             ELSE [s1 EXCEPT !.cache.all_opportunities = Some(srvOpps)])

(***************************************************************************)
(* Dirty-contact detection (export.py find_dirty_contacts)                 *)
(***************************************************************************)
\* the records client.get_contacts(filters={"updated_since": ...}) returns
UpdatedContacts == [i \in DOMAIN srvUpdated |-> srvContacts[srvUpdated[i]]]

\* lines 169-174: each updated contact, and its household when it names one
DirtyFromUpdated(cs) ==
    {cs[i].id : i \in DOMAIN cs}
        \cup {Val(cs[i].household) : i \in {j \in DOMAIN cs : ~IsNone(cs[j].household)}}

\* lines 177-179 and 182-184: items created after last_export
RECURSIVE DirtyFromCreated(_, _)
DirtyFromCreated(items, le) ==
    IF items = <<>> THEN {}
    ELSE (IF _is_after(Head(items).created_at, le)
          THEN _collect_linked_ids(Head(items)) ELSE {})
         \cup DirtyFromCreated(Tail(items), le)

\* lines 202-205: one comment after last_export is enough
HasNewComment(comments, le) ==
    \E i \in DOMAIN comments : _is_after(comments[i].created_at, le)

InLookbackAlways(task, le, lookback) == TRUE

InLookbackStrict(task, le, lookback) ==
    Let(_parse_wb_date(task.created_at), LAMBDA task_date :
        IF IsNone(task_date) THEN FALSE
        ELSE UtcNaive(Val(task_date)) > UtcNaive(MinusDays(le, lookback)))

\* lines 189-199: the task has a date, and it is not before the cutoff
InLookback(task, le, lookback) ==
    Let(_parse_wb_date(task.created_at), LAMBDA task_date :
        IF IsNone(task_date) THEN FALSE
        ELSE ~(UtcNaive(Val(task_date)) < UtcNaive(MinusDays(le, lookback))))

\* lines 188-205: the loop over the tasks, in order; r = [st, dirty]
RECURSIVE CommentLoop(_, _, _, _, _)
CommentLoop(tasks, le, lookback, r, fail) ==
    IF tasks = <<>> \/ Failed(r.st) THEN r
    ELSE IF ~InLookback(Head(tasks), le, lookback)
    THEN CommentLoop(Tail(tasks), le, lookback, r, fail)
    ELSE Let(get_task_comments(r.st, Head(tasks).id, fail), LAMBDA s1 :
             IF Failed(s1) THEN [st |-> s1, dirty |-> r.dirty]
             ELSE CommentLoop(
                    Tail(tasks), le, lookback,
                    [st |-> s1,
                     dirty |-> r.dirty \cup
                         (IF HasNewComment(s1.cache.task_comments[Head(tasks).id], le)
                          THEN _collect_linked_ids(Head(tasks)) ELSE {})],
                    fail))

\* lines 166-184: the three fetches and the ids they make dirty; [st, dirty]
DirtySteps123(le, st, fail) ==
    Let(get_all_opportunities(get_all_tasks(Send(st, ReqUpdated, fail), fail), fail),
        LAMBDA s3 :
            IF Failed(s3) THEN [st |-> s3, dirty |-> {}]
            ELSE [st |-> s3,
                  dirty |-> DirtyFromUpdated(UpdatedContacts)
                              \cup DirtyFromCreated(Val(s3.cache.all_tasks), le)
                              \cup DirtyFromCreated(Val(s3.cache.all_opportunities), le)])

FindDirtyEmptyIsNone(le, lookback, st, fail) ==
    IF IsNone(le) THEN [st |-> st, ret |-> None]
    ELSE Let(DirtySteps123(Val(le), st, fail), LAMBDA r3 :
             IF Failed(r3.st) THEN [st |-> r3.st, ret |-> None]
             ELSE Let(CommentLoop(Val(r3.st.cache.all_tasks), Val(le), lookback, r3, fail),
                      LAMBDA r4 :
                          IF Failed(r4.st) THEN [st |-> r4.st, ret |-> None]
                          ELSE [st |-> r4.st,
                                ret |-> IF r4.dirty = {} THEN None ELSE Some(r4.dirty)]))

\* export.py find_dirty_contacts.  The result is [st, ret]: ret is None or
\* Some(set); when st.exc is set the call raised and ret means nothing.
find_dirty_contacts(le, lookback, st, fail) ==
    IF IsNone(le) THEN [st |-> st, ret |-> None]
    ELSE Let(DirtySteps123(Val(le), st, fail), LAMBDA r3 :
             IF Failed(r3.st) THEN [st |-> r3.st, ret |-> None]
             ELSE Let(CommentLoop(Val(r3.st.cache.all_tasks), Val(le), lookback, r3, fail),
                      LAMBDA r4 :
                          IF Failed(r4.st) THEN [st |-> r4.st, ret |-> None]
                          ELSE [st |-> r4.st, ret |-> Some(r4.dirty)]))

(***************************************************************************)
(* Household resolution (export.py _resolve_household)                     *)
(***************************************************************************)
\* A member reference is a record [id, contact]: the id at its top level and
\* the id inside its "contact" value, each optional.  Two more shapes carry
\* a mark: an entry that is no mapping at all (mapping = FALSE), and a
\* mapping whose "contact" value holds no id (inner = FALSE), whatever id
\* stands beside it.
IsMapping(ref) == "mapping" \notin DOMAIN ref

\* lines 447-448: the id a member reference resolves to, if any.  The
\* "contact" value, when the key is there, is the only place looked at.
MemberRefId(ref) ==
    IF "inner" \in DOMAIN ref THEN None
    ELSE IF ~IsNone(ref.contact) THEN ref.contact ELSE ref.id

\* line 447: member_ref.get on an entry that has no such method
AttributeError == <<"AttributeError", "get">>

\* export.py _fetch_household_members, the loop; r = [st, members]
RECURSIVE FetchMembersLoop(_, _, _)
FetchMembersLoop(refs, r, fail) ==
    IF refs = <<>> \/ Failed(r.st) THEN r
    ELSE IF ~IsMapping(Head(refs))
    THEN [st |-> [r.st EXCEPT !.exc = Some(AttributeError)], members |-> r.members]
    ELSE IF IsNone(MemberRefId(Head(refs))) THEN FetchMembersLoop(Tail(refs), r, fail)
    ELSE Let(Send(r.st, ReqContact(Val(MemberRefId(Head(refs)))), fail), LAMBDA s1 :
             IF Failed(s1) THEN [st |-> s1, members |-> r.members]
             ELSE FetchMembersLoop(
                    Tail(refs),
                    [st |-> s1,
                     members |-> Append(r.members,
                                        srvContacts[Val(MemberRefId(Head(refs)))])],
                    fail))

_fetch_household_members(household_contact, st, fail) ==
    FetchMembersLoop(household_contact.members, [st |-> st, members |-> <<>>], fail)

\* the empty name ""
NoName == 0

\* contact.get("name", default)
NameOr(contact, default) == IF "name" \in DOMAIN contact THEN contact.name ELSE default

\* hh_ref.get("name", ""): the name the back-reference carries, if any
RefName(contact) ==
    IF "household_name" \in DOMAIN contact THEN contact.household_name ELSE NoName

MembersNoFallback(r, contact, hh, hh_name) ==
    [st |-> r.st, members |-> r.members, hh |-> hh, hh_name |-> hh_name]

\* lines 423-424 and 433-434: no member resolved, the contact stands alone
MembersOrSelf(r, contact, hh, hh_name) ==
    [st |-> r.st,
     members |-> IF r.members = <<>> THEN <<contact>> ELSE r.members,
     hh |-> hh,
     hh_name |-> hh_name]

\* export.py _resolve_household: [st, members, hh, hh_name], hh the optional
\* household id and hh_name the name that goes with it.  A back-reference
\* that is missing, null or without an id is household = None.
_resolve_household(contact, st, fail) ==
    IF Failed(st) THEN [st |-> st, members |-> <<>>, hh |-> None, hh_name |-> None]
    ELSE IF contact.type = "Household"
    THEN MembersOrSelf(_fetch_household_members(contact, st, fail), contact,
                       Some(contact.id), Some(NameOr(contact, NoName)))
    ELSE IF ~IsNone(contact.household)
    THEN Let(Send(st, ReqContact(Val(contact.household)), fail), LAMBDA s1 :
             IF Failed(s1) THEN [st |-> s1, members |-> <<>>, hh |-> None, hh_name |-> None]
             ELSE MembersOrSelf(
                    _fetch_household_members(srvContacts[Val(contact.household)], s1, fail),
                    contact, contact.household,
                    Some(NameOr(srvContacts[Val(contact.household)], RefName(contact)))))
    ELSE [st |-> st, members |-> <<contact>>, hh |-> None, hh_name |-> None]

(***************************************************************************)
(* Activity aggregation (export.py _fetch_all_activity)                    *)
(***************************************************************************)
NoActivity == [notes |-> <<>>, events |-> <<>>, workflows |-> <<>>]
Item(i, who) == [id |-> i, creator |-> who, creator_name |-> None]

RECURSIVE DedupIntoLastWins(_, _)
DedupIntoLastWins(acc, items) ==
    IF items = <<>> THEN acc
    ELSE IF \E k \in DOMAIN acc : acc[k].id = Head(items).id
         THEN DedupIntoLastWins(
                [k \in DOMAIN acc |->
                    IF acc[k].id = Head(items).id THEN Head(items) ELSE acc[k]],
                Tail(items))
         ELSE DedupIntoLastWins(Append(acc, Head(items)), Tail(items))

\* append the items whose id was not seen yet, in order (first occurrence wins)
RECURSIVE DedupInto(_, _)
DedupInto(acc, items) ==
    IF items = <<>> THEN acc
    ELSE IF \E k \in DOMAIN acc : acc[k].id = Head(items).id
         THEN DedupInto(acc, Tail(items))
         ELSE DedupInto(Append(acc, Head(items)), Tail(items))

\* lines 486-505: notes, events and workflows, member by member;
\* r = [st, notes, events, workflows]
RECURSIVE MemberLoop(_, _, _)
MemberLoop(members, r, fail) ==
    IF members = <<>> \/ Failed(r.st) THEN r
    ELSE Let(Send(Send(Send(r.st, ReqNotes(Head(members).id), fail),
                       ReqEvents(Head(members).id), fail),
                  ReqWorkflows(Head(members).id), fail),
             LAMBDA s3 :
                 IF Failed(s3) THEN [r EXCEPT !.st = s3]
                 ELSE MemberLoop(
                        Tail(members),
                        [st |-> s3,
                         notes |-> DedupInto(r.notes, srvActivity[Head(members).id].notes),
                         events |-> DedupInto(r.events, srvActivity[Head(members).id].events),
                         workflows |-> DedupInto(r.workflows,
                                                 srvActivity[Head(members).id].workflows)],
                        fail))

\* lines 520 and 539: {link["id"] for link in ... if isinstance(link, dict)}.
\* The set, or no value when an entry is a mapping without an id (KeyError).
LinkIdsOrKeyError(item) ==
    IF \E l \in Range(LinkedList(item)) : l.dict /\ IsNone(l.id)
    THEN None
    ELSE Some({Val(l.id) : l \in {x \in Range(LinkedList(item)) : x.dict}})

KeyError(i) == <<"KeyError", i>>

\* lines 524-529: a copy of the task with its comments
WithComments(task, comments) ==
    [id |-> task.id, created_at |-> task.created_at, linked_to |-> task.linked_to,
     completed |-> task.completed, comments |-> comments]

\* the comments are written on the record at hand, the cached one included
AttachCommentsInPlace(st, task, comments) ==
    [st |-> IF IsNone(st.cache.all_tasks) THEN st
            ELSE [st EXCEPT !.cache.all_tasks =
                     Some([k \in DOMAIN Val(st.cache.all_tasks) |->
                             IF Val(st.cache.all_tasks)[k] = task
                             THEN WithComments(task, comments)
                             ELSE Val(st.cache.all_tasks)[k]])],
     task |-> WithComments(task, comments)]

\* lines 523-529: task_copy = dict(task); task_copy["comments"] = ...  The
\* comments go to the copy; the record the copy was made of, which is the
\* cached one when there is a cache, is left as it is.
AttachComments(st, task, comments) ==
    [st |-> st, task |-> WithComments(task, comments)]

\* lines 521 and 540: linked_ids & member_ids
Retained(linked_ids, member_ids) == linked_ids \cap member_ids # {}

\* lines 525-528: the comments of a retained task
TaskComments(st, task_id, cached, fail) ==
    IF cached THEN get_task_comments(st, task_id, fail)
    ELSE Send(st, ReqComments(task_id), fail)

\* lines 519-529: the tasks, in order; r = [st, tasks]
RECURSIVE TaskLoop(_, _, _, _, _)
TaskLoop(source, member_ids, cached, r, fail) ==
    IF source = <<>> \/ Failed(r.st) THEN r
    ELSE Let(LinkIdsOrKeyError(Head(source)), LAMBDA linked :
         IF IsNone(linked)
         THEN [r EXCEPT !.st.exc = Some(KeyError(Head(source).id))]
         ELSE IF Retained(Val(linked), member_ids)
                 /\ ~(\E k \in DOMAIN r.tasks : r.tasks[k].id = Head(source).id)
         THEN Let(TaskComments(r.st, Head(source).id, cached, fail), LAMBDA s1 :
                  IF Failed(s1) THEN [r EXCEPT !.st = s1]
                  ELSE Let(AttachComments(s1, Head(source), srvComments[Head(source).id]),
                           LAMBDA a :
                           TaskLoop(Tail(source), member_ids, cached,
                                    [st |-> a.st, tasks |-> Append(r.tasks, a.task)],
                                    fail)))
         ELSE TaskLoop(Tail(source), member_ids, cached, r, fail))

\* lines 538-542: the opportunities, in order; r = [st, opps]
RECURSIVE OppLoop(_, _, _)
OppLoop(source, member_ids, r) ==
    IF source = <<>> \/ Failed(r.st) THEN r
    ELSE Let(LinkIdsOrKeyError(Head(source)), LAMBDA linked :
         IF IsNone(linked)
         THEN [r EXCEPT !.st.exc = Some(KeyError(Head(source).id))]
         ELSE IF Retained(Val(linked), member_ids)
                 /\ ~(\E k \in DOMAIN r.opps : r.opps[k].id = Head(source).id)
         THEN OppLoop(Tail(source), member_ids, [r EXCEPT !.opps = Append(@, Head(source))])
         ELSE OppLoop(Tail(source), member_ids, r))

\* client.enhance_user_info on a list of notes, events or workflows: a numeric
\* creator found in the map gets its display name, another is left as it is
enhance_user_info(items, user_map) ==
    [k \in DOMAIN items |->
        IF items[k].creator \in DOMAIN user_map
        THEN [items[k] EXCEPT !.creator_name = Some(user_map[items[k].creator])]
        ELSE items[k]]

MemberIdsWithoutHousehold(members, household_id) ==
    {members[k].id : k \in DOMAIN members}

\* lines 482-484
MemberIds(members, household_id) ==
    {members[k].id : k \in DOMAIN members}
        \cup (IF IsNone(household_id) THEN {} ELSE {Val(household_id)})

EmptyActivity ==
    [notes |-> <<>>, tasks |-> <<>>, events |-> <<>>, workflows |-> <<>>,
     opportunities |-> <<>>]

\* lines 510-517: the tasks to filter, from the cache or requested afresh
TasksSource(st, cached, fail) ==
    IF cached THEN get_all_tasks(st, fail)
    ELSE Send(Send(st, ReqTasks(0), fail), ReqTasks(1), fail)

\* lines 533-536: the opportunities to filter
OppsSource(st, cached, fail) ==
    IF cached THEN get_all_opportunities(st, fail) ELSE Send(st, ReqOpps, fail)

\* lines 507-529, after the member loop; r1 = [st, notes, events, workflows]
ActivityTasks(r1, member_ids, cached, fail) ==
    Let(TasksSource(r1.st, cached, fail), LAMBDA s2 :
        IF Failed(s2) THEN [st |-> s2, tasks |-> <<>>]
        ELSE TaskLoop(IF cached THEN Val(s2.cache.all_tasks)
                      ELSE TasksWithFlag(0) \o TasksWithFlag(1),
                      member_ids, cached, [st |-> s2, tasks |-> <<>>], fail))

\* lines 531-542, after the tasks; r3 = [st, tasks]
ActivityOpps(r3, member_ids, cached, fail) ==
    Let(OppsSource(r3.st, cached, fail), LAMBDA s4 :
        IF Failed(s4) THEN [st |-> s4, opps |-> <<>>]
        ELSE OppLoop(IF cached THEN Val(s4.cache.all_opportunities) ELSE srvOpps,
                     member_ids, [st |-> s4, opps |-> <<>>]))

\* export.py _fetch_all_activity: [st, activity].  `cached` tells whether a
\* cache was passed; without one the tasks, their comments and the
\* opportunities are requested afresh.
_fetch_all_activity(members, user_map, household_id, cached, st, fail) ==
    Let(MemberLoop(members,
                   [st |-> st, notes |-> <<>>, events |-> <<>>, workflows |-> <<>>],
                   fail), LAMBDA r1 :
    Let(ActivityTasks(r1, MemberIds(members, household_id), cached, fail), LAMBDA r3 :
    Let(ActivityOpps(r3, MemberIds(members, household_id), cached, fail), LAMBDA r5 :
        IF Failed(r5.st) THEN [st |-> r5.st, activity |-> EmptyActivity]
        ELSE [st |-> r5.st,
              activity |->
                [notes |-> enhance_user_info(r1.notes, user_map),
                 tasks |-> r3.tasks,
                 events |-> enhance_user_info(r1.events, user_map),
                 workflows |-> enhance_user_info(r1.workflows, user_map),
                 opportunities |-> r5.opps]])))

(***************************************************************************)
(* export.py export_contact_to_markdown.  The document is kept as what it  *)
(* is assembled from: the contact, the household, the members and the      *)
(* aggregated activity.                                                    *)
(***************************************************************************)
NoDocument ==
    [contact |-> 0, title |-> 0, household |-> None, members |-> <<>>,
     activity |-> EmptyActivity]

\* lines 1011-1015: the user map, from the cache or requested afresh
UserMapStep(st, cached, fail) ==
    IF cached THEN get_user_map(st, fail) ELSE Send(st, ReqUsers, fail)

export_contact_to_markdown(contact_id, cached, st, fail) ==
    Let(_resolve_household(srvContacts[contact_id],
                           Send(st, ReqContact(contact_id), fail), fail), LAMBDA r2 :
    Let(_fetch_all_activity(r2.members, UserMap, r2.hh, cached,
                            UserMapStep(r2.st, cached, fail), fail), LAMBDA r4 :
        IF Failed(r4.st) THEN [st |-> r4.st, doc |-> NoDocument]
        ELSE [st |-> r4.st,
              doc |-> [contact |-> contact_id, title |-> srvContacts[contact_id].name,
                       household |-> r2.hh,
                       members |-> [k \in DOMAIN r2.members |-> r2.members[k].id],
                       activity |-> r4.activity]]))

(***************************************************************************)
(* The timeline (export.py _merge_activity_timeline).  An activity item is *)
(* a record of raw dates; a field the item does not carry is absent.  A    *)
(* timeline entry is the item with its type and its sort date.             *)
(***************************************************************************)
\* datetime.min, the least datetime there is; every instant of the worlds
\* the requests run in lies above it
DatetimeMin == -4

\* item.get(field)
Get(item, field) == IF field \in DOMAIN item THEN item[field] ELSE RawAbsent

\* a or b, on optional datetimes (a datetime is never falsy)
OrElse(a, b) == IF IsNone(a) THEN b ELSE a

\* _DATE_FIELDS, in the order of the dictionary
_DATE_FIELDS ==
    << [key |-> "notes",         type |-> "note",        primary |-> "created_at"],
       [key |-> "tasks",         type |-> "task",        primary |-> "due_date"],
       [key |-> "events",        type |-> "event",       primary |-> "starts_at"],
       [key |-> "workflows",     type |-> "workflow",    primary |-> "created_at"],
       [key |-> "opportunities", type |-> "opportunity", primary |-> "target_close"] >>

\* the sort date of an item: its primary date, or else its created_at
SortDate(item, primary) ==
    OrElse(_parse_wb_date(Get(item, primary)), _parse_wb_date(Get(item, "created_at")))

\* activity.get(key, [])
ItemsOf(activity, key) == IF key \in DOMAIN activity THEN activity[key] ELSE <<>>

\* the entries of one activity type, in the order of its list
EntriesOf(activity, f) ==
    [k \in DOMAIN ItemsOf(activity, f.key) |->
        [_activity_type |-> f.type,
         _sort_date |-> SortDate(ItemsOf(activity, f.key)[k], f.primary),
         item |-> ItemsOf(activity, f.key)[k]]]

\* the timeline before it is sorted
RECURSIVE Unsorted(_, _)
Unsorted(activity, k) ==
    IF k > Len(_DATE_FIELDS) THEN <<>>
    ELSE EntriesOf(activity, _DATE_FIELDS[k]) \o Unsorted(activity, k + 1)

\* astimezone(timezone.utc) of an aware datetime below datetime.min + offset
Overflows(entry) ==
    /\ ~IsNone(entry._sort_date)
    /\ Val(entry._sort_date).aware
    /\ UtcNaive(Val(entry._sort_date)) < DatetimeMin

\* export.py _sort_date_key (where it does not raise)
_sort_date_key(entry) ==
    IF IsNone(entry._sort_date) THEN DatetimeMin
    ELSE UtcNaive(Val(entry._sort_date))

\* list.sort(key=_sort_date_key, reverse=True): descending and stable, an
\* entry goes behind every entry placed before it whose key is not smaller
RECURSIVE SortDescending(_, _)
SortDescending(done, todo) ==
    IF todo = <<>> THEN done
    ELSE LET x == Head(todo)
             n == Cardinality({k \in DOMAIN done :
                                 _sort_date_key(done[k]) >= _sort_date_key(x)})
         IN  SortDescending(SubSeq(done, 1, n) \o <<x>> \o SubSeq(done, n + 1, Len(done)),
                            Tail(todo))

\* export.py _merge_activity_timeline
_merge_activity_timeline(activity) ==
    IF \E k \in DOMAIN Unsorted(activity, 1) : Overflows(Unsorted(activity, 1)[k])
    THEN [exc |-> Some("OverflowError"), ret |-> None]
    ELSE [exc |-> None, ret |-> Some(SortDescending(<<>>, Unsorted(activity, 1)))]

(***************************************************************************)
(* Export metadata (export.py ExportMetadata) and the file it is kept in.  *)
(* The text of the file is kept by its form: no JSON at all (empty, junk,  *)
(* a proper prefix of a document), JSON that is no mapping (an array, a    *)
(* scalar), or a mapping with its three fields.                            *)
(***************************************************************************)
\* cls(): last_export None, no contact file, version 1
DefaultMeta == [last_export |-> None, contact_files |-> <<>>, version |-> 1]

\* the text datetime.isoformat() produces: the seconds, then the offset when
\* there is one; ok is false for a string that is no ISO date
IsoText(ok, sec, tz) == [ok |-> ok, sec |-> sec, tz |-> tz]
NoIsoText == IsoText(FALSE, 0, <<>>)

\* self.last_export.isoformat()
isoformat(dt) == IsoText(TRUE, dt.local, IF dt.aware THEN <<dt.off>> ELSE <<>>)

FromisoformatDropsOffset(text) == Naive(text.sec)

\* datetime.fromisoformat on a well-formed text
fromisoformat(text) ==
    IF text.tz = <<>> THEN Naive(text.sec) ELSE Aware(text.sec, text.tz[1])

\* str(k): the decimal digits of a non-negative integer
RECURSIVE str(_)
str(k) == IF k < 10 THEN <<k>> ELSE Append(str(k \div 10), k % 10)

\* the strings int() accepts, among those the model writes: digits only
IsIntText(s) == s # <<>> /\ \A i \in DOMAIN s : s[i] \in 0..9

\* int(k) on such a string
RECURSIVE int(_)
int(s) ==
    IF Len(s) = 1 THEN s[1]
    ELSE 10 * int(SubSeq(s, 1, Len(s) - 1)) + s[Len(s)]

\* the last_export member of the JSON mapping
JAbsent   == [t |-> "absent", n |-> 0, text |-> NoIsoText]
JNull     == [t |-> "null",   n |-> 0, text |-> NoIsoText]
JNum(n)   == [t |-> "number", n |-> n, text |-> NoIsoText]
JEmptyStr == [t |-> "empty string", n |-> 0, text |-> NoIsoText]
JStr(txt) == [t |-> "string", n |-> 0, text |-> txt]

\* the contact_files member: absent, null, an array, or a mapping from key
\* strings to file names
CfAbsent == [t |-> "absent", entries |-> <<>>]
CfNull   == [t |-> "null",   entries |-> <<>>]
CfArray  == [t |-> "array",  entries |-> <<>>]
CfObject(entries) == [t |-> "object", entries |-> entries]

Text(form, le, cf, ver) ==
    [form |-> form, last_export |-> le, contact_files |-> cf, version |-> ver]
EmptyText   == Text("empty", JAbsent, CfAbsent, None)
JunkText    == Text("junk", JAbsent, CfAbsent, None)
PartialText == Text("partial", JAbsent, CfAbsent, None)
ArrayText   == Text("array", JAbsent, CfAbsent, None)
ScalarText  == Text("scalar", JAbsent, CfAbsent, None)
ObjectText(le, cf, ver) == Text("object", le, cf, ver)

Raise(name) == Some(<<name, 0>>)

\* lines 94-96: if data.get("last_export"): datetime.fromisoformat(...)
LoadLastExport(le) ==
    CASE le.t \in {"absent", "null", "empty string"} -> [exc |-> None, val |-> None]
      [] le.t = "number" ->
            IF le.n = 0 THEN [exc |-> None, val |-> None]
            ELSE [exc |-> Raise("TypeError"), val |-> None]
      [] le.t = "string" ->
            IF le.text.ok THEN [exc |-> None, val |-> Some(fromisoformat(le.text))]
            ELSE [exc |-> Raise("ValueError"), val |-> None]

\* lines 97-99: {int(k): v for k, v in data.get("contact_files", {}).items()}
LoadContactFiles(cf) ==
    CASE cf.t = "absent" -> [exc |-> None, val |-> <<>>]
      [] cf.t \in {"null", "array"} -> [exc |-> Raise("AttributeError"), val |-> <<>>]
      [] cf.t = "object" ->
            IF \E k \in DOMAIN cf.entries : ~IsIntText(k)
            THEN [exc |-> Raise("ValueError"), val |-> <<>>]
            ELSE [exc |-> None,
                  val |-> [i \in {int(k) : k \in DOMAIN cf.entries} |->
                             cf.entries[CHOOSE k \in DOMAIN cf.entries : int(k) = i]]]

\* lines 91-104, the body of the try block: [exc, ret]
LoadBody(text) ==
    IF text.form \in {"empty", "junk", "partial"}
    THEN [exc |-> Raise("ValueError"), ret |-> DefaultMeta]        \* JSONDecodeError
    ELSE IF text.form \in {"array", "scalar"}
    THEN [exc |-> Raise("AttributeError"), ret |-> DefaultMeta]    \* data.get
    ELSE Let(LoadLastExport(text.last_export), LAMBDA le :
         Let(LoadContactFiles(text.contact_files), LAMBDA cf :
             IF le.exc # None THEN [exc |-> le.exc, ret |-> DefaultMeta]
             ELSE IF cf.exc # None THEN [exc |-> cf.exc, ret |-> DefaultMeta]
             ELSE [exc |-> None,
                   ret |-> [last_export |-> le.val, contact_files |-> cf.val,
                            version |-> IF IsNone(text.version) THEN 1
                                        ELSE Val(text.version)]]))

\* line 105: except (OSError, ValueError, KeyError)
Caught(exc) == Val(exc)[1] \in {"OSError", "ValueError", "KeyError"}

\* ExportMetadata.load: [exc, ret]; ret means nothing when exc is set
load(file) ==
    IF IsNone(file) THEN [exc |-> None, ret |-> DefaultMeta]
    ELSE Let(LoadBody(Val(file)), LAMBDA r :
             IF r.exc # None /\ Caught(r.exc)
             THEN [exc |-> None, ret |-> DefaultMeta]
             ELSE r)

\* lines 111-115: the mapping save() hands to json.dump
Serialize(m) ==
    ObjectText(
        IF IsNone(m.last_export) THEN JNull ELSE JStr(isoformat(Val(m.last_export))),
        CfObject([k \in {str(i) : i \in DOMAIN m.contact_files} |->
                    m.contact_files[CHOOSE i \in DOMAIN m.contact_files : str(i) = k]]),
        Some(m.version))

\* ExportMetadata.save run to its end: open(path, "w"), json.dump, close
save(m) == Some(Serialize(m))

(***************************************************************************)
(* File names (export.py _slugify, contacts.py 372-375).  A text is a      *)
(* sequence of characters.  A name is kept by its number: 0 is the empty   *)
(* name, n > 0 a lower-case word of its own, and -n that word written with *)
(* a capital, a blank in front and punctuation behind.                     *)
(***************************************************************************)
Whitespace == {" ", "NL"}

\* str.rstrip(), str.lstrip(), str.strip()
RECURSIVE rstrip(_)
rstrip(t) ==
    IF t # <<>> /\ t[Len(t)] \in Whitespace THEN rstrip(SubSeq(t, 1, Len(t) - 1)) ELSE t
RECURSIVE lstrip(_)
lstrip(t) == IF t # <<>> /\ Head(t) \in Whitespace THEN lstrip(Tail(t)) ELSE t
strip(t) == lstrip(rstrip(t))

NameText(n) ==
    IF n = 0 THEN <<>>
    ELSE IF n > 0 THEN <<"n", ToString(n)>>
    ELSE <<" ", "N", ToString(0 - n), "!", "_">>

\* str.lower()
lower(t) == [k \in DOMAIN t |-> IF t[k] = "N" THEN "n" ELSE t[k]]

\* the characters that are neither word characters, nor whitespace, nor "-"
Punctuation == {"!", ".", ",", "'"}

\* re.sub(r"[S]+", "-", t): every run of characters of S becomes one "-"
RECURSIVE RunsToDash(_, _)
RunsToDash(t, S) ==
    IF t = <<>> THEN <<>>
    ELSE IF Head(t) \notin S THEN <<Head(t)>> \o RunsToDash(Tail(t), S)
    ELSE IF Tail(t) # <<>> /\ Head(Tail(t)) \in S THEN RunsToDash(Tail(t), S)
    ELSE <<"-">> \o RunsToDash(Tail(t), S)

\* str.strip("-")
RECURSIVE StripDashes(_)
StripDashes(t) ==
    IF t # <<>> /\ Head(t) = "-" THEN StripDashes(Tail(t))
    ELSE IF t # <<>> /\ t[Len(t)] = "-" THEN StripDashes(SubSeq(t, 1, Len(t) - 1))
    ELSE t

\* export.py _slugify
_slugify(name) ==
    StripDashes(
        RunsToDash(
            RunsToDash(SelectSeq(strip(lower(name)), LAMBDA c : c \notin Punctuation),
                       Whitespace \cup {"_"}),
            {"-"}))

\* lines 374-375 of contacts.py: f"{_slugify(title)}.md"
Filename(title) == [stem |-> _slugify(NameText(title)), ext |-> "md"]

(***************************************************************************)
(* The batch driver (contacts.py export_all_contacts).  The state of a run *)
(* that do_export reads and writes is the record                           *)
(*   b = [st, exported_ids, stats, contact_files, files, out].             *)
(***************************************************************************)
\* contacts.py lines 318-321
ZeroStats ==
    [households |-> 0, persons |-> 0, trusts |-> 0, organizations |-> 0,
     skipped |-> 0, skipped_clean |-> 0, errors |-> 0, updated |-> 0]

\* the counter each phase loop increments
PhaseCounter == <<"households", "persons", "trusts", "organizations">>

\* member.get("id") or member.get("contact", {}).get("id")
MemberIdOrContactId(member) == IF ~IsNone(member.id) THEN member.id ELSE member.contact

\* the ids the loops over `members` add to exported_ids
TrackedMembers(members) ==
    {Val(MemberIdOrContactId(members[k])) :
        k \in {j \in DOMAIN members : ~IsNone(MemberIdOrContactId(members[j]))}}

IsDirtySelfOnly(contact_id, members, dirty) ==
    IF IsNone(dirty) THEN TRUE ELSE contact_id \in Val(dirty)

\* contacts.py _is_dirty, lines 323-335
_is_dirty(contact_id, members, dirty) ==
    IF IsNone(dirty) THEN TRUE
    ELSE \/ contact_id \in Val(dirty)
         \/ TrackedMembers(members) \cap Val(dirty) # {}

Outcome(contact, phase, what) == [id |-> contact.id, phase |-> phase, what |-> what]

\* open(filepath, "w") raises
WriteFault == <<"write", 0>>

OnExportErrorReraise(contact, phase, b, exc) ==
    [b EXCEPT !.st.exc = exc]

\* lines 393-395: except Exception: the error line, stats["errors"] += 1
OnExportError(contact, phase, b, exc) ==
    [b EXCEPT !.st.exc = None,
              !.stats.errors = @ + 1,
              !.out = Append(@, Outcome(contact, phase, "error"))]

\* lines 369-391, the try block when nothing raised
OnExported(contact, phase, b, doc) ==
    [b EXCEPT !.files = (Filename(doc.title) :> doc) @@ @,
              !.exported_ids = @ \cup {contact.id} \cup TrackedMembers(contact.members),
              !.stats.updated = @ + 1,
              !.contact_files = (contact.id :> Filename(doc.title)) @@ @,
              !.out = Append(@, Outcome(contact, phase, "exported"))]

\* lines 368-395: try ... except Exception
TryExport(contact, phase, b, fail) ==
    Let(export_contact_to_markdown(contact.id, TRUE, b.st, fail), LAMBDA r :
        IF Failed(r.st)
        THEN OnExportError(contact, phase, [b EXCEPT !.st = r.st], r.st.exc)
        ELSE IF WriteFault \in fail
        THEN OnExportError(contact, phase, [b EXCEPT !.st = r.st], Some(WriteFault))
        ELSE OnExported(contact, phase, [b EXCEPT !.st = r.st], r.doc))

DoExportAgain(contact, phase, b, fail) ==
    IF ~_is_dirty(contact.id, contact.members, dirty_ids)
    THEN [b EXCEPT !.stats.skipped_clean = @ + 1,
                   !.exported_ids = @ \cup {contact.id} \cup TrackedMembers(contact.members),
                   !.out = Append(@, Outcome(contact, phase, "clean"))]
    ELSE IF opts.dry_run
    THEN [b EXCEPT !.exported_ids = @ \cup {contact.id} \cup TrackedMembers(contact.members),
                   !.out = Append(@, Outcome(contact, phase, "would export"))]
    ELSE TryExport(contact, phase, b, fail)

\* contacts.py do_export, lines 337-395
do_export(contact, phase, b, fail) ==
    IF contact.id \in b.exported_ids
    THEN [b EXCEPT !.stats.skipped = @ + 1,
                   !.out = Append(@, Outcome(contact, phase, "skipped"))]
    ELSE IF ~_is_dirty(contact.id, contact.members, dirty_ids)
    THEN [b EXCEPT !.stats.skipped_clean = @ + 1,
                   !.exported_ids = @ \cup {contact.id} \cup TrackedMembers(contact.members),
                   !.out = Append(@, Outcome(contact, phase, "clean"))]
    ELSE IF opts.dry_run
    THEN [b EXCEPT !.exported_ids = @ \cup {contact.id} \cup TrackedMembers(contact.members),
                   !.out = Append(@, Outcome(contact, phase, "would export"))]
    ELSE TryExport(contact, phase, b, fail)

\* client.get_contacts(filters={"type": ty}): the contacts of the type, by id
ListOfType(ty) == SelectSeq(srvContacts, LAMBDA c : c.type = ty)

\* the listing as the client hands it over: the API may return the first
\* record of a listing once more at its end
Listing(ty, again) ==
    IF again /\ ListOfType(ty) # <<>>
    THEN Append(ListOfType(ty), Head(ListOfType(ty)))
    ELSE ListOfType(ty)

\* lines 400-443: what the loop of phase n iterates over
PhaseList(n, done, again) ==
    IF ContactTypes[n] = "Person"
    THEN SelectSeq(Listing("Person", again), LAMBDA p : p.id \notin done)
    ELSE Listing(ContactTypes[n], again)

SaveMetadataAlways(dry_run, m, file, now) ==
    [meta |-> [m EXCEPT !.last_export = Some(now)],
     file |-> save([m EXCEPT !.last_export = Some(now)])]

\* lines 445-448: if not dry_run: meta.last_export = now; meta.save(output_dir)
save_metadata(dry_run, m, file, now) ==
    IF dry_run THEN [meta |-> m, file |-> file]
    ELSE [meta |-> [m EXCEPT !.last_export = Some(now)],
          file |-> save([m EXCEPT !.last_export = Some(now)])]

(***************************************************************************)
(* Worlds: the CRM contents the specifications start from                  *)
(***************************************************************************)
Contact(i, ty, hh, ms) ==
    [id |-> i, name |-> i, type |-> ty, household |-> hh, members |-> ms]

\* {id: N}: the current shape of a member reference
MemberRef(i) == [id |-> Some(i), contact |-> None]
\* {contact: {id: N}}: the legacy shape
MemberRefLegacy(i) == [id |-> None, contact |-> Some(i)]

\* Contact MaxId is a Household with the members ms; the members carry the
\* back-reference; every other contact is a Person outside any household.
Directory(ms) ==
    [i \in ContactIds |->
        IF i = MaxId
        THEN Contact(i, "Household", None,
                     [k \in DOMAIN SetToSeq(ms) |-> MemberRef(SetToSeq(ms)[k])])
        ELSE Contact(i, "Person", IF i \in ms THEN Some(MaxId) ELSE None, <<>>)]

Task(i, created, linked, done) ==
    [id |-> i, created_at |-> created, linked_to |-> linked, completed |-> done]
Opp(i, created, linked) ==
    [id |-> i, created_at |-> created, linked_to |-> linked]
Comment(created) == [created_at |-> created]

NoBatch ==
    /\ pc = "call"
    /\ dirty_ids = None
    /\ exported_ids = {}
    /\ stats = <<>>
    /\ queue = <<>>
    /\ out = <<>>

NoDisk ==
    /\ metaFile = None
    /\ prevFile = None
    /\ files = <<>>
    /\ clock = 0

NoRequests ==
    /\ cache = EmptyCache
    /\ issued = [r \in Requests |-> 0]
    /\ answered = [r \in Requests |-> 0]
    /\ ncalls = 0

FreshProcess ==
    /\ NoRequests
    /\ input = None

NotCalled == [fn |-> "none", exc |-> None, ret |-> None]

(***************************************************************************)
(* SpecDirty: find_dirty_contacts applied to bounded CRM contents          *)
(***************************************************************************)
\* creation dates on both sides of last_export and of the lookback cutoff,
\* in the three formats, with and without an offset
CreatedChoices ==
    {RawAbsent, RawJunk}
        \cup {RawIso(t) : t \in Times}
        \cup {RawWb(MaxTime, 1), RawDay(MaxTime)}

CommentChoices ==
    {<<>>, <<Comment(RawIso(MaxTime - 1))>>,
     <<Comment(RawAbsent), Comment(RawIsoTz(MaxTime, -1))>>}

LinkedChoices ==
    {None, Some(<<Link(1)>>), Some(<<Link(2), LinkJunk, LinkNoId, Link(1)>>)}

LastExportChoices ==
    {Naive(MaxTime - 1), Aware(MaxTime, 1)}

InitDirty ==
    /\ srvContacts = Directory({1})
    /\ srvUpdated \in {SetToSeq(S) : S \in SUBSET {1, 2}}
    /\ \E c1 \in CreatedChoices, c2 \in {RawIso(MaxTime), RawIso(0)},
          l1 \in LinkedChoices :
          srvTasks = <<Task(1, c1, l1, FALSE), Task(2, c2, Some(<<Link(MaxId)>>), TRUE)>>
    /\ \E c \in {RawAbsent, RawIso(MaxTime - 1), RawIso(MaxTime)} :
          srvOpps = <<Opp(1, c, Some(<<Link(2)>>))>>
    /\ srvComments \in [{1, 2} -> CommentChoices]
    /\ srvActivity = [c \in ContactIds |-> NoActivity]
    /\ FreshProcess
    /\ call = NotCalled
    /\ \E le \in {None} \cup {Some(d) : d \in LastExportChoices} :
          meta = [last_export |-> le, contact_files |-> <<>>, version |-> 1]
    /\ \E n \in {1, 2} :
          opts = [dry_run |-> FALSE, incremental |-> TRUE, comment_lookback_days |-> n]
    /\ NoBatch
    /\ NoDisk

\* a call either meets no failure or one request of it raises
FailPlans(reqs) == {{}} \cup {{r} : r \in reqs}

CallFindDirty ==
    /\ pc = "call"
    /\ call.fn = "none"
    /\ \E fail \in FailPlans({ReqTasks(1), ReqComments(2)}) :
        \E r \in {find_dirty_contacts(
                    meta.last_export, opts.comment_lookback_days,
                    [cache |-> cache, issued |-> issued, answered |-> answered,
                     exc |-> None],
                    fail)} :
            /\ cache' = r.st.cache
            /\ issued' = r.st.issued
            /\ answered' = r.st.answered
            /\ call' = [fn |-> "find_dirty_contacts", exc |-> r.st.exc, ret |-> r.ret]
    /\ ncalls' = ncalls + 1
    /\ UNCHANGED <<srvVars, batchVars, diskVars, clock>>

SpecDirty == InitDirty /\ [][CallFindDirty]_vars


\* the call ended in an exception that no request raised
RaisedOnData(fn) ==
    /\ call.fn = fn
    /\ ~IsNone(call.exc)
    /\ Val(call.exc) \notin Requests

(***************************************************************************)
(* Properties of find_dirty_contacts, stated on the CRM contents           *)
(***************************************************************************)
Returned(fn) == call.fn = fn /\ call.exc = None

\* the instant a date text denotes, read off the text itself
HasInstant(raw) == raw.fmt \notin {"absent", "empty", "junk"}
InstantOf(raw) == raw.local - raw.off
ThresholdInstant(dt) == IF dt.aware THEN dt.local - dt.off ELSE dt.local
StrictlyAfter(raw, dt) == HasInstant(raw) /\ InstantOf(raw) > ThresholdInstant(dt)

LinkedIdsOf(item) ==
    IF item.linked_to = None THEN {}
    ELSE {i \in 0..MaxId :
            \E k \in DOMAIN item.linked_to[1] :
                /\ item.linked_to[1][k].dict
                /\ item.linked_to[1][k].id = <<i>>}

PartUpdated ==
    Range(srvUpdated)
        \cup {h \in ContactIds :
                \E c \in Range(srvUpdated) : srvContacts[c].household = <<h>>}
PartNewTasks(le) ==
    UNION {LinkedIdsOf(srvTasks[k]) :
             k \in {j \in DOMAIN srvTasks : StrictlyAfter(srvTasks[j].created_at, le)}}
PartNewOpps(le) ==
    UNION {LinkedIdsOf(srvOpps[k]) :
             k \in {j \in DOMAIN srvOpps : StrictlyAfter(srvOpps[j].created_at, le)}}
PartNewComments(le, days) ==
    UNION {LinkedIdsOf(srvTasks[k]) :
             k \in {j \in DOMAIN srvTasks :
                      /\ HasInstant(srvTasks[j].created_at)
                      /\ InstantOf(srvTasks[j].created_at) >= ThresholdInstant(le) - days
                      /\ \E n \in DOMAIN srvComments[srvTasks[j].id] :
                            StrictlyAfter(srvComments[srvTasks[j].id][n].created_at, le)}}

\* C1: for a present last_export the returned set is exactly the union of
\* (a) the updated contacts and the households they name, (b) the ids linked
\* by tasks created strictly after last_export, (c) the ids linked by
\* opportunities created strictly after it, (d) the ids linked by tasks
\* created at or after last_export - lookback_days that have a comment
\* created strictly after last_export; no other id is in it.
C1_DirtyIsUnion ==
    (Returned("find_dirty_contacts") /\ meta.last_export # None) =>
        call.ret = Some(PartUpdated
                          \cup PartNewTasks(meta.last_export[1])
                          \cup PartNewOpps(meta.last_export[1])
                          \cup PartNewComments(meta.last_export[1],
                                               opts.comment_lookback_days))

\* a task created exactly on the lookback cutoff whose new comment is the
\* only reason a contact is dirty, while another contact stays clean
C1_Witness ==
    /\ Returned("find_dirty_contacts")
    /\ meta.last_export # None
    /\ \E k \in DOMAIN srvTasks :
          /\ HasInstant(srvTasks[k].created_at)
          /\ InstantOf(srvTasks[k].created_at) =
                ThresholdInstant(meta.last_export[1]) - opts.comment_lookback_days
    /\ ~(PartNewComments(meta.last_export[1], opts.comment_lookback_days)
            \subseteq (PartUpdated \cup PartNewTasks(meta.last_export[1])
                         \cup PartNewOpps(meta.last_export[1])))
    /\ call.ret # None
    /\ ContactIds \ call.ret[1] # {}

\* C2: the result is None if and only if last_export is None; for a present
\* last_export it is a set, possibly the empty one.
C2_NoneIffFirstRun ==
    Returned("find_dirty_contacts") =>
        ((call.ret = None) <=> (meta.last_export = None))

\* nothing changed since a present last_export: the empty set is returned
C2_Witness ==
    /\ Returned("find_dirty_contacts")
    /\ meta.last_export # None
    /\ call.ret = Some({})

\* the task has no readable creation date, or one before the cutoff
OutsideLookback(task, le, days) ==
    \/ ~HasInstant(task.created_at)
    \/ InstantOf(task.created_at) < ThresholdInstant(le) - days

\* C20: find_dirty_contacts sends no comment request for a task created
\* before last_export - lookback_days or without a readable creation date,
\* and a comment added to such a task after last_export makes no contact
\* dirty: every dirty id comes from an updated contact, a new task, a new
\* opportunity, or a task inside the window.
C20_OldTasksNotInspected ==
    (call.fn = "find_dirty_contacts" /\ meta.last_export # None) =>
        /\ \A k \in DOMAIN srvTasks :
              OutsideLookback(srvTasks[k], meta.last_export[1], opts.comment_lookback_days)
                  => issued[ReqComments(srvTasks[k].id)] = 0
        /\ Returned("find_dirty_contacts") =>
              call.ret[1] \subseteq
                  PartUpdated \cup PartNewTasks(meta.last_export[1])
                      \cup PartNewOpps(meta.last_export[1])
                      \cup UNION {LinkedIdsOf(srvTasks[k]) :
                                    k \in {j \in DOMAIN srvTasks :
                                             ~OutsideLookback(srvTasks[j], meta.last_export[1],
                                                              opts.comment_lookback_days)}}

\* the first task is older than the window and has a comment newer than
\* last_export: its comments were not asked for and the contact it links
\* is not dirty, while the comments of the second task were asked for
C20_Witness ==
    /\ Returned("find_dirty_contacts")
    /\ meta.last_export # None
    /\ srvTasks[1].created_at = RawIso(0)
    /\ LinkedIdsOf(srvTasks[1]) = {1}
    /\ \E n \in DOMAIN srvComments[1] :
          StrictlyAfter(srvComments[1][n].created_at, meta.last_export[1])
    /\ issued[ReqComments(1)] = 0
    /\ issued[ReqComments(2)] = 1
    /\ 1 \notin call.ret[1]


(***************************************************************************)
(* SpecAgg: one export of one contact over bounded CRM contents            *)
(***************************************************************************)
AggLinkedChoices ==
    {None, Some(<<>>), Some(<<Link(1)>>), Some(<<Link(2)>>), Some(<<Link(MaxId)>>),
     Some(<<LinkJunk, Link(2), Link(1)>>), Some(<<Link(1), LinkNoId>>)}

AggOppLinkedChoices ==
    {None, Some(<<Link(1)>>), Some(<<Link(MaxId)>>), Some(<<LinkJunk, Link(2)>>)}

\* Contacts 1 and 2 return the same note, event and workflow, each in a copy
\* of its own (told apart by the creator); contact 2 has a note of its own
\* and is handed its workflow twice.
AggActivity ==
    [c \in ContactIds |->
        CASE c = 1 -> [notes |-> <<Item(1, 1)>>, events |-> <<Item(1, 1)>>,
                       workflows |-> <<Item(1, 1)>>]
          [] c = 2 -> [notes |-> <<Item(2, 7), Item(1, 7)>>, events |-> <<Item(1, 7)>>,
                       workflows |-> <<Item(1, 7), Item(1, 1)>>]
          [] OTHER -> NoActivity]

DefaultOpts == [dry_run |-> FALSE, incremental |-> TRUE, comment_lookback_days |-> 1]

\* The second task (opportunity) is another one, or the first one listed
\* again: a record that both completion-state requests return.
InitAgg ==
    /\ \E ms \in SUBSET (ContactIds \ {MaxId}) : srvContacts = Directory(ms)
    /\ srvUpdated = <<>>
    /\ \E l1 \in AggLinkedChoices, l2 \in AggLinkedChoices, i2 \in {1, 2} :
          srvTasks = <<Task(1, RawIso(0), l1, FALSE), Task(i2, RawIso(0), l2, TRUE)>>
    /\ \E l1 \in AggOppLinkedChoices, i2 \in {1, 2} :
          srvOpps = <<Opp(1, RawIso(0), l1), Opp(i2, RawIso(0), Some(<<Link(2)>>))>>
    /\ srvComments = [t \in {1, 2} |-> <<Comment(RawIso(t))>>]
    /\ srvActivity = AggActivity
    /\ FreshProcess
    /\ call = NotCalled
    /\ meta = DefaultMeta
    /\ opts = DefaultOpts
    /\ NoBatch
    /\ NoDisk

ExportOnce ==
    /\ pc = "call"
    /\ call.fn = "none"
    /\ \E c \in ContactIds, cached \in BOOLEAN, fail \in FailPlans({ReqNotes(1)}) :
        \E r \in {export_contact_to_markdown(
                    c, cached,
                    [cache |-> cache, issued |-> issued, answered |-> answered,
                     exc |-> None],
                    fail)} :
            /\ cache' = r.st.cache
            /\ issued' = r.st.issued
            /\ answered' = r.st.answered
            /\ call' = [fn |-> "export_contact_to_markdown", exc |-> r.st.exc,
                        ret |-> r.doc]
    /\ ncalls' = ncalls + 1
    /\ UNCHANGED <<srvVars, batchVars, diskVars, clock>>

SpecAgg == InitAgg /\ [][ExportOnce]_vars

\* the ids the filter compares with: the members and the household, if any
FilterIds(doc) ==
    Range(doc.members) \cup (IF doc.household = None THEN {} ELSE {doc.household[1]})

IdsOf(items) == {items[k].id : k \in DOMAIN items}
NoRepeat(items) == \A i, j \in DOMAIN items : items[i].id = items[j].id => i = j

\* C10: a task or opportunity is in the aggregated result if and only if
\* the ids of its linked_to meet the member ids extended with the household
\* id; items linked to other contacts only or without linked_to are left
\* out, an item linked to the household alone is kept, and no id is repeated.
C10_RetainedIffLinked ==
    Returned("export_contact_to_markdown") =>
        /\ IdsOf(call.ret.activity.tasks) =
              {srvTasks[k].id :
                 k \in {j \in DOMAIN srvTasks :
                          LinkedIdsOf(srvTasks[j]) \cap FilterIds(call.ret) # {}}}
        /\ IdsOf(call.ret.activity.opportunities) =
              {srvOpps[k].id :
                 k \in {j \in DOMAIN srvOpps :
                          LinkedIdsOf(srvOpps[j]) \cap FilterIds(call.ret) # {}}}
        /\ NoRepeat(call.ret.activity.tasks)
        /\ NoRepeat(call.ret.activity.opportunities)

\* a household with a member is exported: the task linked to the household
\* alone is kept once although listed twice, the opportunity without
\* linked_to is left out
C10_Witness ==
    /\ Returned("export_contact_to_markdown")
    /\ call.ret.household # None
    /\ call.ret.household[1] \notin Range(call.ret.members)
    /\ srvTasks[1].id = srvTasks[2].id
    /\ LinkedIdsOf(srvTasks[1]) = {call.ret.household[1]}
    /\ LinkedIdsOf(srvTasks[2]) = {call.ret.household[1]}
    /\ Len(call.ret.activity.tasks) = 1
    /\ srvOpps[1].linked_to = None
    /\ 1 \notin IdsOf(call.ret.activity.opportunities)

\* the well-formed links of an item: the ids of the entries that are
\* mappings with an id
WellFormedLinks(item) ==
    {Val(l.id) : l \in {x \in Range(LinkedList(item)) : x.dict /\ ~IsNone(x.id)}}

Malformed(item) == \E l \in Range(LinkedList(item)) : ~l.dict \/ IsNone(l.id)

\* C23: aggregation never raises on a malformed linked_to collection:
\* entries that are no mappings and mappings that carry no id are skipped,
\* and the task or opportunity is filtered on its remaining well-formed
\* links.
C23_MalformedLinksSkipped ==
    /\ ~RaisedOnData("export_contact_to_markdown")
    /\ Returned("export_contact_to_markdown") =>
          \A k \in DOMAIN srvTasks :
              Malformed(srvTasks[k]) =>
                  (srvTasks[k].id \in IdsOf(call.ret.activity.tasks)
                     <=> \E j \in DOMAIN srvTasks :
                            /\ srvTasks[j].id = srvTasks[k].id
                            /\ WellFormedLinks(srvTasks[j]) \cap FilterIds(call.ret) # {})

\* C23, the part the code keeps: an entry that is no mapping is skipped by
\* the aggregation, and the item is filtered on the rest.
C23_NonMappingLinksSkipped ==
    Returned("export_contact_to_markdown") =>
        \A k \in DOMAIN srvOpps :
            Malformed(srvOpps[k]) =>
                (srvOpps[k].id \in IdsOf(call.ret.activity.opportunities)
                   <=> \E j \in DOMAIN srvOpps :
                          /\ srvOpps[j].id = srvOpps[k].id
                          /\ WellFormedLinks(srvOpps[j]) \cap FilterIds(call.ret) # {})

PerMemberKinds == {"notes", "events", "workflows"}

\* position of the first entry of a sequence that satisfies P
FirstIndex(seq, P(_)) == CHOOSE i \in DOMAIN seq : P(seq[i]) /\ \A j \in 1..(i - 1) : ~P(seq[j])

\* the copy of item id that the first member, in member order, returned first
FirstCopy(doc, kind, id) ==
    LET m == doc.members[FirstIndex(doc.members,
                            LAMBDA c : id \in IdsOf(srvActivity[c][kind]))]
    IN  srvActivity[m][kind][FirstIndex(srvActivity[m][kind], LAMBDA x : x.id = id)]

\* C11: in the aggregated notes, events and workflows every id that a
\* member returned appears exactly once, and the copy kept is the one the
\* first member that returned it handed over first.
C11_OnceFirstMemberWins ==
    Returned("export_contact_to_markdown") =>
        \A kind \in PerMemberKinds :
            /\ NoRepeat(call.ret.activity[kind])
            /\ IdsOf(call.ret.activity[kind]) =
                  UNION {IdsOf(srvActivity[c][kind]) : c \in Range(call.ret.members)}
            /\ \A k \in DOMAIN call.ret.activity[kind] :
                  call.ret.activity[kind][k].creator =
                      FirstCopy(call.ret, kind, call.ret.activity[kind][k].id).creator

\* a household with the two members that share a note was exported: the
\* note is there once, in the first member's copy
C11_Witness ==
    /\ Returned("export_contact_to_markdown")
    /\ call.ret.members = <<1, 2>>
    /\ call.ret.contact = MaxId
    /\ Len(call.ret.activity.notes) = 2
    /\ call.ret.activity.notes[1].id = 1
    /\ call.ret.activity.notes[1].creator = 1
    /\ srvActivity[2].notes[2].id = 1
    /\ srvActivity[2].notes[2].creator = 7


(***************************************************************************)
(* SpecCache: any sequence of find_dirty_contacts and                      *)
(* export_contact_to_markdown calls on one ExportCache, where any request  *)
(* may raise                                                               *)
(***************************************************************************)
MaxCalls == 3

InitCache ==
    /\ \E ms \in {{}, {1}} : srvContacts = Directory(ms)
    /\ srvUpdated = <<1>>
    /\ srvTasks = <<Task(1, RawIso(MaxTime), Some(<<Link(1)>>), FALSE),
                    Task(2, RawIso(MaxTime - 1), Some(<<Link(MaxId)>>), TRUE)>>
    /\ srvOpps = <<Opp(1, RawIso(0), Some(<<Link(2)>>))>>
    /\ srvComments = [t \in {1, 2} |-> <<Comment(RawIso(MaxTime))>>]
    /\ srvActivity = AggActivity
    /\ FreshProcess
    /\ call = NotCalled
    /\ meta = [DefaultMeta EXCEPT !.last_export = Some(Aware(MaxTime - 1, 0))]
    /\ opts = DefaultOpts
    /\ NoBatch
    /\ NoDisk

CachedRequests ==
    {ReqUsers, ReqTasks(0), ReqTasks(1), ReqOpps} \cup {ReqComments(t) : t \in TaskIds}

CacheFindDirty ==
    /\ pc = "call"
    /\ ncalls < MaxCalls
    /\ \E fail \in FailPlans(CachedRequests \cup {ReqUpdated}) :
        \E r \in {find_dirty_contacts(
                    meta.last_export, opts.comment_lookback_days,
                    [cache |-> cache, issued |-> issued, answered |-> answered,
                     exc |-> None],
                    fail)} :
            /\ cache' = r.st.cache
            /\ issued' = r.st.issued
            /\ answered' = r.st.answered
            /\ call' = [fn |-> "find_dirty_contacts", exc |-> r.st.exc, ret |-> r.ret]
    /\ ncalls' = ncalls + 1
    /\ UNCHANGED <<srvVars, batchVars, diskVars, clock>>

CacheExport ==
    /\ pc = "call"
    /\ ncalls < MaxCalls
    /\ \E c \in ContactIds, fail \in FailPlans(CachedRequests \cup {ReqContact(1)}) :
        \E r \in {export_contact_to_markdown(
                    c, TRUE,
                    [cache |-> cache, issued |-> issued, answered |-> answered,
                     exc |-> None],
                    fail)} :
            /\ cache' = r.st.cache
            /\ issued' = r.st.issued
            /\ answered' = r.st.answered
            /\ call' = [fn |-> "export_contact_to_markdown", exc |-> r.st.exc,
                        ret |-> IF IsNone(r.st.exc) THEN Some(IdsOf(r.doc.activity.tasks))
                                ELSE None]
    /\ ncalls' = ncalls + 1
    /\ UNCHANGED <<srvVars, batchVars, diskVars, clock>>

SpecCache == InitCache /\ [][CacheFindDirty \/ CacheExport]_vars

\* C4 as stated: the API answers the user-map request, each of the two task
\* requests, the opportunity request and the comment request of any task at
\* most once over the calls that share the cache.
C4_FetchedAtMostOnce ==
    \A r \in CachedRequests : answered[r] <= 1

\* what the counters and the cache say together: the user map, the
\* opportunities, the comments of a task and the completed=true tasks were
\* answered once if the value is in the cache and never otherwise; every
\* answered completed=false request was followed by a completed=true one
C4_Counts ==
    /\ answered[ReqUsers] = (IF cache.user_map = None THEN 0 ELSE 1)
    /\ answered[ReqTasks(1)] = (IF cache.all_tasks = None THEN 0 ELSE 1)
    /\ answered[ReqOpps] = (IF cache.all_opportunities = None THEN 0 ELSE 1)
    /\ \A t \in TaskIds :
          answered[ReqComments(t)] = (IF t \in DOMAIN cache.task_comments THEN 1 ELSE 0)
    /\ answered[ReqTasks(0)] = issued[ReqTasks(1)]

\* once a value is in the cache, no call sends its request again
C4_NoRequestOnceStored ==
    /\ cache.user_map # None => issued'[ReqUsers] = issued[ReqUsers]
    /\ cache.all_tasks # None =>
          /\ issued'[ReqTasks(0)] = issued[ReqTasks(0)]
          /\ issued'[ReqTasks(1)] = issued[ReqTasks(1)]
    /\ cache.all_opportunities # None => issued'[ReqOpps] = issued[ReqOpps]
    /\ \A t \in TaskIds :
          t \in DOMAIN cache.task_comments =>
             issued'[ReqComments(t)] = issued[ReqComments(t)]

\* C4, amended: over the calls that share one cache each of the user map, the
\* complete task collection, the opportunities and the comments of a task is
\* obtained and stored at most once, and once it is stored every later
\* request for it is served from the cache.  A fetch that raises stores
\* nothing and the next request repeats it: the completed=false request is
\* answered once more for each completed=true request that raised.
C4_StoredAtMostOnce ==
    []C4_Counts /\ [][C4_NoRequestOnceStored]_vars

\* three calls were made on a filled cache: an export and a detection both
\* read the tasks and the comments of task 1, each answered once
C4_Witness ==
    /\ ncalls = MaxCalls
    /\ call.exc = None
    /\ cache.all_tasks # None
    /\ cache.user_map # None
    /\ cache.all_opportunities # None
    /\ 1 \in DOMAIN cache.task_comments
    /\ issued[ReqTasks(0)] = 1
    /\ issued[ReqComments(1)] = 1

\* every value in the cache is the whole answer of the API
CacheValuesWhole ==
    /\ cache.user_map \in {None, Some(UserMap)}
    /\ cache.all_tasks \in {None, Some(TasksWithFlag(0) \o TasksWithFlag(1))}
    /\ cache.all_opportunities \in {None, Some(srvOpps)}
    /\ \A t \in DOMAIN cache.task_comments : cache.task_comments[t] = srvComments[t]

\* the value a cached request is made for is not in the cache c
Unset(c, r) ==
    CASE r = ReqUsers -> c.user_map = None
      [] r \in {ReqTasks(0), ReqTasks(1)} -> c.all_tasks = None
      [] r = ReqOpps -> c.all_opportunities = None
      [] OTHER -> r[2] \notin DOMAIN c.task_comments

\* one call: what was cached stays as it was; a request that raised stored
\* nothing; the tasks are stored by a call that got both answers
FailedFetchStoresNothing ==
    /\ cache.user_map # None => cache'.user_map = cache.user_map
    /\ cache.all_tasks # None => cache'.all_tasks = cache.all_tasks
    /\ cache.all_opportunities # None => cache'.all_opportunities = cache.all_opportunities
    /\ \A t \in DOMAIN cache.task_comments :
          t \in DOMAIN cache'.task_comments /\ cache'.task_comments[t] = cache.task_comments[t]
    /\ (~IsNone(call'.exc) /\ Val(call'.exc) \in CachedRequests) =>
          Unset(cache', Val(call'.exc))
    /\ (cache.all_tasks = None /\ cache'.all_tasks # None) =>
          /\ answered'[ReqTasks(0)] = answered[ReqTasks(0)] + 1
          /\ answered'[ReqTasks(1)] = answered[ReqTasks(1)] + 1

\* the fields of a task record as the API returns it
TaskFields == {"id", "created_at", "linked_to", "completed"}

C29_NoPartialValue ==
    []CacheValuesWhole /\ [][FailedFetchStoresNothing]_vars

\* the completed=true request raised after the completed=false one was
\* answered, and a later call fetched both states and stored the tasks
C29_Witness ==
    /\ answered[ReqTasks(0)] = 2
    /\ answered[ReqTasks(1)] = 1
    /\ issued[ReqTasks(1)] = 2
    /\ cache.all_tasks = Some(TasksWithFlag(0) \o TasksWithFlag(1))

(***************************************************************************)
(* SpecMeta: ExportMetadata.load and ExportMetadata.save on one output     *)
(* directory.  save is followed through the three things it does to the    *)
(* file, and the process may be stopped between any two of them.           *)
(***************************************************************************)
\* records a run may hold when it saves
MetaChoices ==
    {[last_export |-> le, contact_files |-> cf, version |-> 1] :
        le \in {None, Some(Naive(1)), Some(Aware(MaxTime, 1)), Some(Aware(MaxTime, 0))},
        cf \in {<<>>, (1 :> Filename(1)),
                (MaxId :> Filename(MaxId)) @@ (MaxId + 10 :> Filename(1))}}

\* what may sit in the directory before: nothing, a file an earlier run
\* wrote, or a file something else left there
LastExportFieldChoices ==
    {JAbsent, JNull, JNum(0), JNum(MaxTime), JEmptyStr, JStr(NoIsoText),
     JStr(isoformat(Aware(1, 1)))}

ContactFilesFieldChoices ==
    {CfAbsent, CfNull, CfArray,
     CfObject((<<1>> :> Filename(1)) @@ (<<1, 2>> :> Filename(2))),
     CfObject((<<1>> :> Filename(1)) @@ (<<-1>> :> Filename(2)))}

FileChoices ==
    {None, Some(EmptyText), Some(JunkText), Some(ArrayText), Some(ScalarText)}
        \cup {Some(ObjectText(le, cf, Some(1))) :
                le \in LastExportFieldChoices, cf \in ContactFilesFieldChoices}
        \cup {Some(Serialize(m)) : m \in MetaChoices}

InitMeta ==
    /\ srvContacts = Directory({})
    /\ srvUpdated = <<>>
    /\ srvTasks = <<>>
    /\ srvOpps = <<>>
    /\ srvComments = <<>>
    /\ srvActivity = [c \in ContactIds |-> NoActivity]
    /\ FreshProcess
    /\ call = NotCalled
    /\ meta \in MetaChoices
    /\ opts = DefaultOpts
    /\ dirty_ids = None
    /\ exported_ids = {}
    /\ stats = <<>>
    /\ queue = <<>>
    /\ out = <<>>
    /\ pc = "idle"
    /\ metaFile \in FileChoices
    /\ prevFile = None
    /\ files = <<>>
    /\ clock = 0

\* ExportMetadata.load(output_dir), by a process that is not saving
MetaLoad ==
    /\ pc \in {"idle", "saved", "stopped"}
    /\ \E r \in {load(metaFile)} :
          call' = [fn |-> "load", exc |-> r.exc,
                   ret |-> IF r.exc = None THEN Some(r.ret) ELSE None]
    /\ UNCHANGED <<srvVars, cache, issued, answered, ncalls, batchVars, diskVars,
                   clock>>

\* save, line 116: open(path, "w") creates the file or empties it
SaveOpen ==
    /\ pc = "idle"
    /\ pc' = "open"
    /\ prevFile' = metaFile
    /\ metaFile' = Some(EmptyText)
    /\ call' = NotCalled
    /\ UNCHANGED <<srvVars, cache, issued, answered, ncalls, opts, meta, dirty_ids,
                   exported_ids, stats, queue, out, files, clock>>

\* save, lines 117-118: json.dump and f.write fill the buffer of the file
\* object; what of it has reached the file so far is a prefix of the text
SaveWrite ==
    /\ pc = "open"
    /\ pc' = "writing"
    /\ metaFile' \in {Some(EmptyText), Some(PartialText)}
    /\ UNCHANGED <<srvVars, procVars, opts, meta, dirty_ids, exported_ids, stats,
                   queue, out, prevFile, files, clock>>

\* save, the end of the with block: the rest is flushed and the file closed
SaveClose ==
    /\ pc = "writing"
    /\ pc' = "saved"
    /\ metaFile' = save(meta)
    /\ UNCHANGED <<srvVars, procVars, opts, meta, dirty_ids, exported_ids, stats,
                   queue, out, prevFile, files, clock>>

\* the process is killed, or the machine stops, while save is under way
SaveInterrupted ==
    /\ pc \in {"open", "writing"}
    /\ pc' = "stopped"
    /\ UNCHANGED <<srvVars, procVars, opts, meta, dirty_ids, exported_ids, stats,
                   queue, out, diskVars, clock>>

NextMeta == MetaLoad \/ SaveOpen \/ SaveWrite \/ SaveClose \/ SaveInterrupted

SpecMeta == InitMeta /\ [][NextMeta]_vars

(***************************************************************************)
(* Properties of the metadata record                                       *)
(***************************************************************************)
Loaded == call.fn = "load"

\* a file that holds a record: a mapping whose last_export is null or an ISO
\* date and whose contact_files maps integer strings to file names
IsRecord(text) ==
    /\ text.form = "object"
    /\ \/ text.last_export.t \in {"absent", "null"}
       \/ text.last_export.t = "string" /\ text.last_export.text.ok
    /\ \/ text.contact_files.t = "absent"
       \/ /\ text.contact_files.t = "object"
          /\ \A k \in DOMAIN text.contact_files.entries : IsIntText(k)

Corrupt(file) == ~IsNone(file) /\ ~IsRecord(Val(file))

\* C6: ExportMetadata.load never raises, and for a missing file and for any
\* content that is no record it returns the default record (no last_export,
\* no contact file).
C6_LoadNeverRaises ==
    Loaded =>
        /\ call.exc = None
        /\ (IsNone(metaFile) \/ Corrupt(metaFile)) => call.ret = Some(DefaultMeta)

\* C7: from the moment save starts, also when it is stopped half-way, the
\* file holds the complete record that was there before or the complete
\* record being saved.
C7_OldOrNewRecord ==
    pc \in {"open", "writing", "saved", "stopped"} =>
        metaFile \in {prevFile, Some(Serialize(meta))}

\* C9: load after save gives back the saved last_export (None included, the
\* offset included) and the saved contact_files, with integer keys again.
C9_SaveLoadRoundTrip ==
    (pc = "saved" /\ Loaded) =>
        /\ call.exc = None
        /\ Val(call.ret).last_export = meta.last_export
        /\ DOMAIN Val(call.ret).contact_files = DOMAIN meta.contact_files
        /\ \A k \in DOMAIN meta.contact_files :
              /\ k \in Nat
              /\ Val(call.ret).contact_files[k] = meta.contact_files[k]

\* a record with an aware last_export and a two-digit contact id went
\* through the file and came back
C9_Witness ==
    /\ pc = "saved"
    /\ Loaded
    /\ meta.last_export = Some(Aware(MaxTime, 1))
    /\ MaxId + 10 \in DOMAIN meta.contact_files
    /\ Val(metaFile).contact_files.entries[str(MaxId + 10)] = Filename(1)
    /\ call.exc = None

(***************************************************************************)
(* SpecBatch: one run of export-all on an output directory that is empty   *)
(* or holds what an earlier run left.                                      *)
(***************************************************************************)
\* Contact MaxId is a household with the members ms, the first of them
\* listed in the legacy shape; contact 2 is a Person or a Trust.
BatchDirectory(ms, ty2) ==
    [i \in ContactIds |->
        IF i = MaxId
        THEN Contact(i, "Household", None,
                     [k \in DOMAIN SetToSeq(ms) |->
                        IF k = 1 THEN MemberRefLegacy(SetToSeq(ms)[k])
                        ELSE MemberRef(SetToSeq(ms)[k])])
        ELSE Contact(i, IF i = 2 THEN ty2 ELSE "Person",
                     IF i \in ms THEN Some(MaxId) ELSE None, <<>>)]

\* the record and the document an earlier run left
EarlierMeta ==
    [last_export |-> Some(Aware(MaxTime - 1, 0)),
     contact_files |-> (1 :> Filename(1)),
     version |-> 1]
EarlierFiles == (Filename(1) :> [NoDocument EXCEPT !.contact = 1, !.title = 1])

\* the contact files that sit next to a metadata file
FilesBeside(file) == IF file = Some(Serialize(EarlierMeta)) THEN EarlierFiles ELSE <<>>

InitBatch ==
    /\ \E ms \in {{}, {2}, {1, 2}}, ty2 \in {"Person", "Trust"} :
          srvContacts = BatchDirectory(ms, ty2)
    /\ srvUpdated \in {<<>>, <<1>>, <<MaxId>>}
    /\ \E c \in {RawIso(0), RawIso(MaxTime)} :
          srvTasks = <<Task(1, c, Some(<<Link(2)>>), FALSE)>>
    /\ srvOpps = <<>>
    /\ srvComments = [t \in {1} |-> <<>>]
    /\ srvActivity = [c \in ContactIds |-> NoActivity]
    /\ FreshProcess
    /\ call = NotCalled
    /\ opts \in [dry_run : BOOLEAN, incremental : BOOLEAN, comment_lookback_days : {1}]
    /\ pc = <<"start", 0>>
    /\ meta = DefaultMeta
    /\ dirty_ids = None
    /\ exported_ids = {}
    /\ stats = ZeroStats
    /\ queue = <<>>
    /\ out = <<>>
    /\ metaFile \in {None, Some(Serialize(EarlierMeta)), Some(JunkText), Some(ArrayText)}
    /\ prevFile = metaFile
    /\ files = FilesBeside(metaFile)
    /\ clock = MaxTime

Aborted(fn, exc) ==
    /\ pc' = <<"aborted", 0>>
    /\ call' = [fn |-> fn, exc |-> exc, ret |-> None]

\* lines 283-321: the metadata is loaded and, in an incremental run with a
\* prior export, the dirty contacts are detected
StartRun ==
    /\ pc = <<"start", 0>>
    /\ \E fail \in FailPlans({ReqUpdated}) :
       \E m \in {load(metaFile)} :
          IF m.exc # None
          THEN /\ Aborted("load", m.exc)
               /\ UNCHANGED <<cache, issued, answered, meta, dirty_ids>>
          ELSE \E r \in {IF opts.incremental /\ m.ret.last_export # None
                         THEN find_dirty_contacts(
                                m.ret.last_export, opts.comment_lookback_days,
                                [cache |-> cache, issued |-> issued,
                                 answered |-> answered, exc |-> None],
                                fail)
                         ELSE [st |-> [cache |-> cache, issued |-> issued,
                                       answered |-> answered, exc |-> None],
                               ret |-> None]} :
                  /\ cache' = r.st.cache
                  /\ issued' = r.st.issued
                  /\ answered' = r.st.answered
                  /\ IF Failed(r.st)
                     THEN /\ Aborted("find_dirty_contacts", r.st.exc)
                          /\ UNCHANGED <<meta, dirty_ids>>
                     ELSE /\ pc' = <<"list", 1>>
                          /\ meta' = m.ret
                          /\ dirty_ids' = r.ret
                          /\ UNCHANGED call
    /\ UNCHANGED <<srvVars, ncalls, opts, exported_ids, stats, queue, out, diskVars,
                   clock>>

\* lines 400, 412, 426 and 436: the contacts of the phase's type are listed
ListContacts ==
    /\ pc[1] = "list"
    /\ \E fail \in FailPlans({ReqList(pc[2])}) :
       \E s \in {Send([cache |-> cache, issued |-> issued, answered |-> answered,
                       exc |-> None],
                      ReqList(pc[2]), fail)} :
          /\ issued' = s.issued
          /\ answered' = s.answered
          /\ IF Failed(s)
             THEN /\ Aborted("get_contacts", s.exc)
                  /\ UNCHANGED queue
             ELSE /\ pc' = <<"loop", pc[2]>>
                  /\ \E again \in BOOLEAN : queue' = PhaseList(pc[2], exported_ids, again)
                  /\ UNCHANGED call
    /\ UNCHANGED <<srvVars, cache, ncalls, opts, meta, dirty_ids, exported_ids, stats,
                   out, diskVars, clock>>

\* one turn of a phase loop: do_export on the next contact, then the
\* phase counter
DoExport ==
    /\ pc[1] = "loop"
    /\ queue # <<>>
    /\ \E fail \in FailPlans({ReqContact(Head(queue).id), WriteFault}) :
       \E b \in {do_export(
                    Head(queue), ContactTypes[pc[2]],
                    [st |-> [cache |-> cache, issued |-> issued, answered |-> answered,
                             exc |-> None],
                     exported_ids |-> exported_ids, stats |-> stats,
                     contact_files |-> meta.contact_files, files |-> files,
                     out |-> out],
                    fail)} :
          /\ cache' = b.st.cache
          /\ issued' = b.st.issued
          /\ answered' = b.st.answered
          /\ exported_ids' = b.exported_ids
          /\ meta' = [meta EXCEPT !.contact_files = b.contact_files]
          /\ files' = b.files
          /\ out' = b.out
          /\ IF Failed(b.st)
             THEN /\ Aborted("do_export", b.st.exc)
                  /\ stats' = b.stats
                  /\ UNCHANGED queue
             ELSE /\ stats' = [b.stats EXCEPT ![PhaseCounter[pc[2]]] = @ + 1]
                  /\ queue' = Tail(queue)
                  /\ UNCHANGED <<pc, call>>
    /\ UNCHANGED <<srvVars, ncalls, opts, dirty_ids, metaFile, prevFile, clock>>

\* a phase loop has gone through its listing
EndPhase ==
    /\ pc[1] = "loop"
    /\ queue = <<>>
    /\ pc' = IF pc[2] < Len(ContactTypes) THEN <<"list", pc[2] + 1>> ELSE <<"save", 0>>
    /\ UNCHANGED <<srvVars, procVars, opts, meta, dirty_ids, exported_ids, stats, queue,
                   out, diskVars, clock>>

\* lines 445-448: the metadata is stamped and saved, unless the run is dry
SaveMetadata ==
    /\ pc = <<"save", 0>>
    /\ \E r \in {save_metadata(opts.dry_run, meta, metaFile, Aware(clock, 0))} :
          /\ meta' = r.meta
          /\ metaFile' = r.file
    /\ pc' = <<"done", 0>>
    /\ UNCHANGED <<srvVars, procVars, opts, dirty_ids, exported_ids, stats, queue, out,
                   prevFile, files, clock>>

NextBatch == StartRun \/ ListContacts \/ DoExport \/ EndPhase \/ SaveMetadata

SpecBatch == InitBatch /\ [][NextBatch]_vars

(***************************************************************************)
(* Properties of a batch run                                               *)
(***************************************************************************)
\* the contacts do_export went on with: not the ones it had handled already
Reached == {k \in DOMAIN out : out[k].what # "skipped"}

\* do_export chose to export the contact
Selected(k) == out[k].what \in {"would export", "exported", "error"}

\* the ids a household lists as its members, in either shape
ListedMemberIds(c) ==
    {Val(srvContacts[c].members[j].id) :
        j \in {i \in DOMAIN srvContacts[c].members : ~IsNone(srvContacts[c].members[i].id)}}
    \cup
    {Val(srvContacts[c].members[j].contact) :
        j \in {i \in DOMAIN srvContacts[c].members :
                  ~IsNone(srvContacts[c].members[i].contact)}}

\* the directory held a record with a last_export when the run began
PriorLastExport ==
    /\ ~IsNone(prevFile)
    /\ IsRecord(Val(prevFile))
    /\ Val(prevFile).last_export.t = "string"

WrittenFor(c) ==
    /\ Filename(srvContacts[c].name) \in DOMAIN files
    /\ files[Filename(srvContacts[c].name)].contact = c
    /\ c \in DOMAIN meta.contact_files
    /\ meta.contact_files[c] = Filename(srvContacts[c].name)

\* C3: with a dirty set, a contact the export loop reaches is exported if and
\* only if its id, or for a household the id of a listed member, is in the
\* set; an empty set exports nothing; without a set (first run, --full)
\* every contact reached is exported.  The set is absent exactly when the run
\* is not incremental or found no prior last_export.
C3_ExportedIffDirty ==
    /\ pc[1] \in {"list", "loop", "save", "done"} =>
          (IsNone(dirty_ids) <=> ~(opts.incremental /\ PriorLastExport))
    /\ \A k \in Reached :
          /\ Selected(k) <=>
                \/ IsNone(dirty_ids)
                \/ out[k].id \in Val(dirty_ids)
                \/ /\ srvContacts[out[k].id].type = "Household"
                   /\ ListedMemberIds(out[k].id) \cap Val(dirty_ids) # {}
          /\ dirty_ids = Some({}) => ~Selected(k)
          /\ out[k].what = "exported" => WrittenFor(out[k].id)
          /\ Selected(k) /\ out[k].what # "exported" =>
                opts.dry_run \/ out[k].what = "error"

\* an incremental run with a prior export reached a household whose own id is
\* clean and exported it for a dirty member, and skipped a clean contact
C3_Witness ==
    /\ pc = <<"done", 0>>
    /\ ~IsNone(dirty_ids)
    /\ \E k \in Reached :
          /\ out[k].id = MaxId
          /\ out[k].what = "exported"
          /\ MaxId \notin Val(dirty_ids)
    /\ \E k \in Reached : out[k].what = "clean"

Count(what) == Cardinality({k \in DOMAIN out : out[k].what = what})

C8_DryRunWritesNothing ==
    opts.dry_run => (files = FilesBeside(prevFile) /\ metaFile = prevFile)

\* a first dry run went to its end and named a contact it would export, and
\* there is no metadata file
C8_Witness ==
    /\ opts.dry_run
    /\ pc = <<"done", 0>>
    /\ Count("would export") >= 1
    /\ prevFile = None
    /\ metaFile = None

\* do_export wrote the contact's document, or said it would in a dry run
Exported(k) == out[k].what \in {"would export", "exported"}

\* C16: in one run no contact id is exported twice, and once Phase 1 has
\* exported a household, skipped it as clean or listed it in a dry run, no
\* Person the household lists as a member is taken up for export in Phase 2.
C16_ExportedOnce ==
    /\ \A k, l \in DOMAIN out :
          (Exported(k) /\ Exported(l) /\ out[k].id = out[l].id) => k = l
    /\ \A k, l \in DOMAIN out :
          (/\ out[k].phase = "Household"
           /\ out[k].what \in {"exported", "clean", "would export"}
           /\ out[l].phase = "Person"
           /\ out[l].id \in ListedMemberIds(out[k].id)) => ~Selected(l)

\* a run ended in which the household, listed twice, was exported once and
\* skipped once, and of the two Persons only the one outside the household
\* was exported in Phase 2
C16_Witness ==
    /\ pc = <<"done", 0>>
    /\ ListedMemberIds(MaxId) = {2}
    /\ srvContacts[2].type = "Person"
    /\ \E k, l, m \in DOMAIN out :
          /\ k < l /\ l < m
          /\ out[k] = [id |-> MaxId, phase |-> "Household", what |-> "exported"]
          /\ out[l] = [id |-> MaxId, phase |-> "Household", what |-> "skipped"]
          /\ out[m] = [id |-> 1, phase |-> "Person", what |-> "exported"]
    /\ \A k \in DOMAIN out : out[k].id # 2


(***************************************************************************)
(* SpecRuns: two consecutive incremental runs of export-all on one output  *)
(* directory.  Time passes while a run is in progress, and the CRM may     *)
(* receive a new task once the first run has read the tasks.               *)
(***************************************************************************)
\* the separator the terminal shows between the two runs: the summary of
\* the first one (contacts.py 450-462)
Summary == [id |-> 0, phase |-> "Summary", what |-> "summary"]

\* what an earlier run left in the directory: a record stamped at time 0
RunsEarlierMeta == [last_export |-> Some(Aware(0, 0)), contact_files |-> <<>>, version |-> 1]

InitRuns ==
    /\ srvContacts = BatchDirectory({}, "Person")
    /\ srvUpdated = <<>>
    /\ srvTasks = <<Task(1, RawIso(0), Some(<<Link(1)>>), FALSE)>>
    /\ srvOpps = <<>>
    /\ srvComments = [t \in {1, 2} |-> <<>>]
    /\ srvActivity = [c \in ContactIds |-> NoActivity]
    /\ input = None
    /\ cache = EmptyCache
    /\ issued = [r \in Requests \cup {ReqComments(2)} |-> 0]
    /\ answered = [r \in Requests \cup {ReqComments(2)} |-> 0]
    /\ ncalls = 0
    /\ call = NotCalled
    /\ opts = [dry_run |-> FALSE, incremental |-> TRUE, comment_lookback_days |-> 1]
    /\ pc = <<"start", 0>>
    /\ meta = DefaultMeta
    /\ dirty_ids = None
    /\ exported_ids = {}
    /\ stats = ZeroStats
    /\ queue = <<>>
    /\ out = <<>>
    /\ metaFile \in {None, Some(Serialize(RunsEarlierMeta))}
    /\ prevFile = metaFile
    /\ files = <<>>
    /\ clock = 1

RunInProgress == pc[1] \in {"list", "loop", "save"}

\* time passes
Tick ==
    /\ clock < MaxTime
    /\ pc[1] \in {"start", "list", "loop", "save"}
    /\ clock' = clock + 1
    /\ UNCHANGED <<srvVars, procVars, batchVars, metaFile, prevFile, files>>

\* a user of the CRM creates a task linked to a contact while the first run
\* is in progress and has read the tasks
ServerCreatesTask ==
    /\ ncalls = 0
    /\ RunInProgress
    /\ ~IsNone(cache.all_tasks)
    /\ 2 \notin TaskIds
    /\ \E c \in {1, 2} :
          srvTasks' = Append(srvTasks, Task(2, RawIso(clock), Some(<<Link(c)>>), FALSE))
    /\ UNCHANGED <<srvUpdated, srvContacts, srvOpps, srvComments, srvActivity, input,
                   procVars, batchVars, diskVars, clock>>

\* the first run has returned; the command is started again, in a new
\* process, on the same directory
NextRun ==
    /\ pc = <<"done", 0>>
    /\ ncalls = 0
    /\ ncalls' = 1
    /\ pc' = <<"start", 0>>
    /\ cache' = EmptyCache
    /\ issued' = [r \in DOMAIN issued |-> 0]
    /\ answered' = [r \in DOMAIN answered |-> 0]
    /\ call' = NotCalled
    /\ meta' = DefaultMeta
    /\ dirty_ids' = None
    /\ exported_ids' = {}
    /\ stats' = ZeroStats
    /\ queue' = <<>>
    /\ out' = Append(out, Summary)
    /\ prevFile' = metaFile
    /\ UNCHANGED <<srvVars, opts, metaFile, files, clock>>

NextRuns ==
    \/ StartRun \/ ListContacts \/ DoExport \/ EndPhase \/ SaveMetadata
    \/ Tick \/ ServerCreatesTask \/ NextRun

SpecRuns == InitRuns /\ [][NextRuns]_vars

\* the second run is past its change detection
SecondRunDetected == ncalls = 1 /\ pc[1] \in {"list", "loop", "save", "done"}

\* the task the CRM received during the first run
NewTask == srvTasks[CHOOSE k \in DOMAIN srvTasks : srvTasks[k].id = 2]

\* C26: no change is lost between consecutive incremental runs: a task
\* created on the server while run N is in progress, after run N read the
\* tasks and before it recorded last_export, puts its linked contacts in
\* the dirty set of run N+1.
C26_NoChangeLost ==
    (SecondRunDetected /\ 2 \in TaskIds) =>
        \/ IsNone(dirty_ids)
        \/ LinkedIdsOf(NewTask) \subseteq Val(dirty_ids)

\* the positions of the terminal output that belong to the first run, and
\* to the second
FirstRunOut ==
    {k \in DOMAIN out : \E s \in DOMAIN out : out[s] = Summary /\ k < s}
SecondRunOut ==
    {k \in DOMAIN out : \E s \in DOMAIN out : out[s] = Summary /\ k > s}

\* C27: a contact whose export fails during run N is exported again by the
\* next incremental run N+1 on the same output directory, even when
\* nothing about it changes on the server between the two runs.
C27_FailedExportRetried ==
    (ncalls = 1 /\ pc = <<"done", 0>> /\ 2 \notin TaskIds) =>
        \A k \in FirstRunOut :
            out[k].what = "error" =>
                \E j \in SecondRunOut :
                    out[j].id = out[k].id /\ out[j].what \in {"exported", "error"}

(***************************************************************************)
(* SpecNames: one run of export-all over contacts whose names may be the   *)
(* same, or differ in case and punctuation only                            *)
(***************************************************************************)
\* contact 2 has a name of its own, the name of contact 1, or that name
\* written differently
InitNames ==
    /\ \E n2 \in {2, 1, -1}, ms \in {{}, {2}} :
          srvContacts = [BatchDirectory(ms, "Person") EXCEPT ![2].name = n2]
    /\ srvUpdated = <<>>
    /\ srvTasks = <<>>
    /\ srvOpps = <<>>
    /\ srvComments = [t \in {1} |-> <<>>]
    /\ srvActivity = [c \in ContactIds |-> NoActivity]
    /\ FreshProcess
    /\ call = NotCalled
    /\ opts \in [dry_run : BOOLEAN, incremental : {TRUE}, comment_lookback_days : {1}]
    /\ pc = <<"start", 0>>
    /\ meta = DefaultMeta
    /\ dirty_ids = None
    /\ exported_ids = {}
    /\ stats = ZeroStats
    /\ queue = <<>>
    /\ out = <<>>
    /\ metaFile = None
    /\ prevFile = None
    /\ files = <<>>
    /\ clock = MaxTime

SpecNames == InitNames /\ [][NextBatch]_vars

ExportedContacts == {out[k].id : k \in {j \in DOMAIN out : out[j].what = "exported"}}

\* C28: in a batch run, two distinct contacts that are both exported are
\* written to distinct files: no contact's file is overwritten by another
\* contact's export in the same run, and contact_files maps distinct
\* contact ids to distinct filenames.
C28_DistinctFiles ==
    /\ \A c \in ExportedContacts : \E f \in DOMAIN files : files[f].contact = c
    /\ \A c, d \in DOMAIN meta.contact_files :
          c # d => meta.contact_files[c] # meta.contact_files[d]

\* C28, the part the code keeps: contacts whose names give different slugs
\* are written to different files, each holding its own document.
C28_DistinctSlugsDistinctFiles ==
    \A c \in ExportedContacts :
        (\A d \in ExportedContacts \ {c} :
             Filename(srvContacts[d].name) # Filename(srvContacts[c].name))
            => WrittenFor(c)

(***************************************************************************)
(* SpecTimeline: _merge_activity_timeline applied to bounded activity      *)
(***************************************************************************)
\* no task, opportunity, comment or activity in the CRM
NoRecords ==
    /\ srvUpdated = <<>>
    /\ srvTasks = <<>>
    /\ srvOpps = <<>>
    /\ srvComments = [t \in {1, 2} |-> <<>>]
    /\ srvActivity = [c \in ContactIds |-> NoActivity]

\* a process that has sent nothing and runs no batch
Idle ==
    /\ NoRequests
    /\ call = NotCalled
    /\ meta = DefaultMeta
    /\ opts = DefaultOpts
    /\ NoBatch
    /\ NoDisk

\* the world of the functions that send no request
Standalone ==
    /\ srvContacts = Directory({})
    /\ NoRecords
    /\ Idle

\* no date, an unreadable one, the least date there is (0001-01-01), a plain
\* one, one that is later on its face and earlier in UTC, and one whose UTC
\* value lies below the least date
TimelineDates ==
    {RawAbsent, RawJunk, RawDay(DatetimeMin), RawIso(1), RawWb(2, 2),
     RawWb(DatetimeMin, 1)}

\* a note, a task, an event that is there or whose key is missing, and two
\* opportunities, the first without target_close
InitTimeline ==
    /\ Standalone
    /\ \E n \in TimelineDates, d \in TimelineDates, c \in {RawAbsent, RawIso(3)},
          cl \in {RawAbsent, RawDay(3)}, oc \in {RawAbsent, RawDay(2)},
          t2 \in {RawJunk, RawDay(DatetimeMin), RawDay(1)}, ev \in BOOLEAN :
          LET base == [notes |-> <<[id |-> 1, created_at |-> n]>>,
                       tasks |-> <<[id |-> 1, due_date |-> d, created_at |-> c]>>,
                       opportunities |->
                          <<[id |-> 1, target_close |-> RawAbsent, close_date |-> cl,
                             created_at |-> oc],
                            [id |-> 2, target_close |-> t2]>>]
          IN  input = IF ev
                      THEN [notes |-> base.notes, tasks |-> base.tasks,
                            opportunities |-> base.opportunities,
                            events |-> <<[id |-> 1, starts_at |-> RawIsoTz(3, -1)]>>]
                      ELSE base

MergeTimeline ==
    /\ pc = "call"
    /\ call.fn = "none"
    /\ \E r \in {_merge_activity_timeline(input)} :
          call' = [fn |-> "_merge_activity_timeline", exc |-> r.exc,
                   ret |-> IF IsNone(r.ret) THEN <<>> ELSE Val(r.ret)]
    /\ UNCHANGED <<srvVars, cache, issued, answered, ncalls, batchVars, diskVars, clock>>

SpecTimeline == InitTimeline /\ [][MergeTimeline]_vars

\* the date field a type is ordered by, as the specification lists them
PrimaryOf(type) ==
    CASE type = "note" -> "created_at"
      [] type = "task" -> "due_date"
      [] type = "event" -> "starts_at"
      [] type = "workflow" -> "created_at"
      [] type = "opportunity" -> "target_close"

\* the date text an entry is ordered by: the primary one when it denotes an
\* instant, created_at otherwise
DateTextOf(e) ==
    IF HasInstant(Get(e.item, PrimaryOf(e._activity_type)))
    THEN Get(e.item, PrimaryOf(e._activity_type))
    ELSE Get(e.item, "created_at")

Dated(e) == HasInstant(DateTextOf(e))

\* the input items with their types, as a set
TypedItems(activity) ==
    UNION {{<<_DATE_FIELDS[k].type, ItemsOf(activity, _DATE_FIELDS[k].key)[j]>> :
              j \in DOMAIN ItemsOf(activity, _DATE_FIELDS[k].key)} :
           k \in DOMAIN _DATE_FIELDS}

\* the timeline holds the input items, each once
C12_Reordering ==
    Returned("_merge_activity_timeline") =>
        /\ {<<call.ret[k]._activity_type, call.ret[k].item>> : k \in DOMAIN call.ret}
              = TypedItems(input)
        /\ Len(call.ret) = Cardinality(TypedItems(input))

\* among the dated entries the instants do not increase
C12_DatedNonIncreasing ==
    Returned("_merge_activity_timeline") =>
        \A i, j \in DOMAIN call.ret :
            (i < j /\ Dated(call.ret[i]) /\ Dated(call.ret[j])) =>
                InstantOf(DateTextOf(call.ret[i])) >= InstantOf(DateTextOf(call.ret[j]))

\* C12: the merged timeline is a reordering of the input items, the
\* instants of its dated entries do not increase from first to last, and
\* no entry without a resolvable date stands before an entry with one.
C12_NewestFirstUndatedLast ==
    /\ C12_Reordering
    /\ C12_DatedNonIncreasing
    /\ Returned("_merge_activity_timeline") =>
          \A i, j \in DOMAIN call.ret :
              (i < j /\ Dated(call.ret[j])) => Dated(call.ret[i])

\* the sort date of every entry is the one its date text denotes, and there
\* is none when neither the primary date nor created_at is readable
C13_SortDateSelection ==
    Returned("_merge_activity_timeline") =>
        \A k \in DOMAIN call.ret :
            /\ Dated(call.ret[k]) <=> ~IsNone(call.ret[k]._sort_date)
            /\ Dated(call.ret[k]) =>
                  UtcNaive(Val(call.ret[k]._sort_date)) = InstantOf(DateTextOf(call.ret[k]))

\* the activity with the close_date of every opportunity taken away
WithoutCloseDate(activity) ==
    [key \in DOMAIN activity |->
        [k \in DOMAIN activity[key] |->
            [f \in DOMAIN activity[key][k] \ {"close_date"} |-> activity[key][k][f]]]]

\* the types and ids of a timeline, in order
OrderOf(timeline) ==
    [k \in DOMAIN timeline |-> <<timeline[k]._activity_type, timeline[k].item.id>>]

\* the order of the timeline is the one the same activity has without its
\* close_date fields
C13_CloseDateIgnored ==
    Returned("_merge_activity_timeline") =>
        OrderOf(call.ret) = OrderOf(Val(_merge_activity_timeline(WithoutCloseDate(input)).ret))

OnlyCloseDate(e) ==
    /\ e._activity_type = "opportunity"
    /\ HasInstant(Get(e.item, "close_date"))
    /\ ~Dated(e)

\* C13: an entry is ordered by its type's primary date, by created_at when
\* that is absent, and as the oldest when both are; close_date has no part
\* in the order, and an opportunity that carries close_date alone stands
\* after every dated entry.
C13_PrimaryThenCreatedAt ==
    /\ C13_SortDateSelection
    /\ C13_CloseDateIgnored
    /\ Returned("_merge_activity_timeline") =>
          \A i, j \in DOMAIN call.ret :
              (OnlyCloseDate(call.ret[i]) /\ Dated(call.ret[j])) => j < i

(***************************************************************************)
(* SpecHousehold: _resolve_household applied to the contacts of a bounded  *)
(* directory, where any request may raise                                  *)
(***************************************************************************)
\* a member reference that names no contact
MemberRefNoId == [id |-> None, contact |-> None]
\* {"contact": {}, "id": N}: the "contact" value holds no id
MemberRefEmptyContact(i) == [id |-> Some(i), contact |-> None, inner |-> FALSE]
\* an entry that is no mapping: a string, a number, null
MemberRefNotMapping == [id |-> None, contact |-> None, mapping |-> FALSE]

HouseholdMemberChoices ==
    {<<>>, <<MemberRefNoId>>, <<MemberRef(1)>>,
     <<MemberRefLegacy(2), MemberRefNoId, MemberRef(1)>>,
     <<MemberRef(2), MemberRefEmptyContact(1), MemberRefLegacy(1)>>,
     <<MemberRef(2), MemberRefNotMapping, MemberRefLegacy(1)>>}

\* Contact MaxId is a Household, with a name or without one; contacts 1 and
\* 2 are Persons that may carry a back-reference to it, whether or not the
\* household lists them; the back-reference of contact 1 may carry a name
\* of its own.
InitHousehold ==
    /\ NoRecords
    /\ Idle
    /\ input \in ContactIds
    /\ \E ms \in HouseholdMemberChoices, named \in BOOLEAN, h1 \in {None, Some(MaxId)},
          h2 \in {None, Some(MaxId)}, refname \in BOOLEAN :
          srvContacts =
            [i \in ContactIds |->
                CASE i = MaxId ->
                       IF named THEN Contact(i, "Household", None, ms)
                       ELSE [id |-> i, type |-> "Household", household |-> None,
                             members |-> ms]
                  [] i = 1 ->
                       IF refname
                       THEN [id |-> 1, name |-> 1, type |-> "Person", household |-> h1,
                             members |-> <<>>, household_name |-> 10 + MaxId]
                       ELSE Contact(1, "Person", h1, <<>>)
                  [] OTHER -> Contact(i, "Person", h2, <<>>)]

ResolveHousehold ==
    /\ pc = "call"
    /\ call.fn = "none"
    /\ \E fail \in FailPlans({ReqContact(1), ReqContact(MaxId)}) :
        \E r \in {_resolve_household(
                    srvContacts[input],
                    [cache |-> cache, issued |-> issued, answered |-> answered,
                     exc |-> None],
                    fail)} :
            /\ cache' = r.st.cache
            /\ issued' = r.st.issued
            /\ answered' = r.st.answered
            /\ call' = [fn |-> "_resolve_household", exc |-> r.st.exc,
                        ret |-> [members |-> r.members,
                                 household_info |->
                                    IF IsNone(r.hh) THEN None
                                    ELSE Some([id |-> Val(r.hh), name |-> Val(r.hh_name)])]]
    /\ UNCHANGED <<srvVars, ncalls, batchVars, diskVars, clock>>

SpecHousehold == InitHousehold /\ [][ResolveHousehold]_vars

\* the contact belongs to a household: it is one, or it refers back to one
InHousehold(c) == c.type = "Household" \/ ~IsNone(c.household)

\* the household record of such a contact
HouseholdOf(c) == IF c.type = "Household" THEN c ELSE srvContacts[Val(c.household)]

\* the contacts the member references of a household name, in order
RECURSIVE NamedMembers(_)
NamedMembers(refs) ==
    IF refs = <<>> THEN <<>>
    ELSE (IF "inner" \in DOMAIN Head(refs) THEN <<>>
          ELSE IF ~IsNone(Head(refs).contact) THEN <<srvContacts[Val(Head(refs).contact)]>>
          ELSE IF ~IsNone(Head(refs).id) THEN <<srvContacts[Val(Head(refs).id)]>>
          ELSE <<>>)
         \o NamedMembers(Tail(refs))

\* C14: the resolver returns a member list that is never empty: for a
\* Household or a contact with a back-reference the members the household
\* names, or the contact alone when it names none, and the contact alone
\* otherwise; household_info is absent exactly in that last case and
\* otherwise holds the id and the name of the household.
C14_MembersNeverEmpty ==
    Returned("_resolve_household") =>
        /\ call.ret.members # <<>>
        /\ InHousehold(srvContacts[input]) =>
              /\ call.ret.members =
                    IF NamedMembers(HouseholdOf(srvContacts[input]).members) = <<>>
                    THEN <<srvContacts[input]>>
                    ELSE NamedMembers(HouseholdOf(srvContacts[input]).members)
              /\ ~IsNone(call.ret.household_info)
              /\ Val(call.ret.household_info).id = HouseholdOf(srvContacts[input]).id
              /\ "name" \in DOMAIN HouseholdOf(srvContacts[input]) =>
                    Val(call.ret.household_info).name = HouseholdOf(srvContacts[input]).name
        /\ ~InHousehold(srvContacts[input]) =>
              /\ call.ret.members = <<srvContacts[input]>>
              /\ IsNone(call.ret.household_info)

\* a Person refers back to a household that names no member: the Person
\* stands alone and the household is reported
C14_Witness ==
    /\ Returned("_resolve_household")
    /\ input = 1
    /\ srvContacts[1].household = Some(MaxId)
    /\ srvContacts[MaxId].members = <<MemberRefNoId>>
    /\ call.ret.members = <<srvContacts[1]>>
    /\ call.ret.household_info = Some([id |-> MaxId, name |-> MaxId])

\* the contact is not a Household, refers back to one, and that household
\* names no member
BackRefToEmptyHousehold(c) ==
    /\ c.type # "Household"
    /\ ~IsNone(c.household)
    /\ NamedMembers(srvContacts[Val(c.household)].members) = <<>>

\* C21 (as the code has it): when the exported contact carries a household
\* back-reference and the referenced household resolves to no members, the
\* member list is the single-element list containing the exported contact
\* itself, and household_info names the referenced household.
C21_BackRefFallbackIsExported ==
    (Returned("_resolve_household") /\ BackRefToEmptyHousehold(srvContacts[input])) =>
        /\ call.ret.members = <<srvContacts[input]>>
        /\ ~IsNone(call.ret.household_info)
        /\ Val(call.ret.household_info).id = Val(srvContacts[input].household)

\* contact 2 refers back to a household whose member list is empty
C21_Witness ==
    /\ Returned("_resolve_household")
    /\ input = 2
    /\ srvContacts[2].household = Some(MaxId)
    /\ srvContacts[MaxId].members = <<>>
    /\ Len(call.ret.members) = 1
    /\ call.ret.members[1].id = 2

\* C21 (as stated): in that case the member list is the single-element
\* list containing the household contact itself.
C21_BackRefFallbackIsHousehold ==
    (Returned("_resolve_household") /\ BackRefToEmptyHousehold(srvContacts[input])) =>
        call.ret.members = <<srvContacts[Val(srvContacts[input].household)]>>

\* C22: member extraction accepts the {contact: {id}} and the {id, ...}
\* reference shapes mixed in one list, fetches the members in list order,
\* and skips every malformed entry (one that is no mapping, or from which
\* no id can be resolved) without raising and without losing the
\* well-formed entries.
C22_MalformedMembersSkipped ==
    /\ ~RaisedOnData("_resolve_household")
    /\ (Returned("_resolve_household") /\ InHousehold(srvContacts[input])
            /\ NamedMembers(HouseholdOf(srvContacts[input]).members) # <<>>) =>
          call.ret.members = NamedMembers(HouseholdOf(srvContacts[input]).members)

\* C22, the part the code keeps: when every entry of the list is a mapping,
\* the members are those the entries name, both shapes mixed, in list
\* order, and the entries naming none are skipped.
C22_MappingsInOrder ==
    (Returned("_resolve_household") /\ InHousehold(srvContacts[input])
        /\ \E k \in DOMAIN HouseholdOf(srvContacts[input]).members :
              MemberRefId(HouseholdOf(srvContacts[input]).members[k]) = None
        /\ NamedMembers(HouseholdOf(srvContacts[input]).members) # <<>>) =>
      call.ret.members = NamedMembers(HouseholdOf(srvContacts[input]).members)

(***************************************************************************)
(* The command line (cli/common.py pass_client and the command groups).    *)
(* A command is its group, its name, the write flag its pass_client        *)
(* decorator is given and the client method its body calls.                *)
(***************************************************************************)
\* cli/constants.py ExitCode
SUCCESS == 0
GENERAL_ERROR == 1
AUTH_ERROR == 2
RATE_LIMIT == 5
READONLY_BLOCKED == 10

Cmd(g, n, w, m) == [group |-> g, name |-> n, write |-> w, method |-> m]

\* auth.py: the commands of the group auth
AuthCommands ==
    { Cmd("auth", "whoami", FALSE, "api_request"),
      Cmd("auth", "test", FALSE, "api_request") }

\* contacts.py: the commands of the group contacts
ContactsCommands ==
    { Cmd("contacts", "list", FALSE, "get_contacts"),
      Cmd("contacts", "get", FALSE, "get_contact"),
      Cmd("contacts", "search", FALSE, "get_contact_by_name"),
      Cmd("contacts", "create", TRUE, "create_contact"),
      Cmd("contacts", "update", TRUE, "update_contact"),
      Cmd("contacts", "delete", TRUE, "delete_contact"),
      Cmd("contacts", "export", FALSE, "export_contact_to_markdown"),
      Cmd("contacts", "export-all", FALSE, "export_all") }

\* events.py: the commands of the group events
EventsCommands ==
    { Cmd("events", "list", FALSE, "get_events"),
      Cmd("events", "get", FALSE, "get_event"),
      Cmd("events", "create", TRUE, "create_event"),
      Cmd("events", "update", TRUE, "update_event"),
      Cmd("events", "delete", TRUE, "delete_event") }

\* notes.py: the commands of the group notes
NotesCommands ==
    { Cmd("notes", "list", FALSE, "get_notes"),
      Cmd("notes", "get", FALSE, "get_note"),
      Cmd("notes", "create", TRUE, "create_note"),
      Cmd("notes", "update", TRUE, "update_note") }

\* opportunities.py: the commands of the group opportunities
OpportunitiesCommands ==
    { Cmd("opportunities", "list", FALSE, "get_opportunities"),
      Cmd("opportunities", "get", FALSE, "get_opportunity"),
      Cmd("opportunities", "create", TRUE, "create_opportunity"),
      Cmd("opportunities", "update", TRUE, "update_opportunity"),
      Cmd("opportunities", "delete", TRUE, "delete_opportunity") }

\* projects.py: the commands of the group projects
ProjectsCommands ==
    { Cmd("projects", "list", FALSE, "get_projects"),
      Cmd("projects", "get", FALSE, "get_project"),
      Cmd("projects", "create", TRUE, "create_project"),
      Cmd("projects", "update", TRUE, "update_project"),
      Cmd("projects", "delete", TRUE, "delete_project") }

\* tasks.py: the commands of the group tasks
TasksCommands ==
    { Cmd("tasks", "list", FALSE, "get_tasks"),
      Cmd("tasks", "get", FALSE, "get_task"),
      Cmd("tasks", "create", TRUE, "api_post"),
      Cmd("tasks", "update", TRUE, "update_task"),
      Cmd("tasks", "delete", TRUE, "delete_task"),
      Cmd("tasks", "complete", TRUE, "update_task") }

\* workflows.py: the commands of the group workflows
WorkflowsCommands ==
    { Cmd("workflows", "list", FALSE, "get_workflows"),
      Cmd("workflows", "get", FALSE, "get_workflow"),
      Cmd("workflows", "templates", FALSE, "get_workflow_templates"),
      Cmd("workflows", "create", TRUE, "create_workflow"),
      Cmd("workflows", "delete", TRUE, "delete_workflow"),
      Cmd("workflows", "complete-step", TRUE, "update_workflow_step"),
      Cmd("workflows", "revert-step", TRUE, "update_workflow_step") }

\* the commands registered in cli/main.py that take a client
Commands ==
    AuthCommands \cup ContactsCommands \cup TasksCommands \cup EventsCommands
        \cup NotesCommands \cup WorkflowsCommands \cup OpportunitiesCommands
        \cup ProjectsCommands

\* what a run of the program did: the exit code, the last step it reached,
\* whether a client was built and the client methods that were called
Ran(code, at, built, calls) ==
    [exit |-> code, stage |-> at, client |-> built, requests |-> calls]

\* handle_api_error: the exit code for what the client's call raised
ApiExit(api) ==
    CASE api = "ok" -> SUCCESS
      [] api = "rate_limit" -> RATE_LIMIT
      [] OTHER -> GENERAL_ERROR

PassClientDryRunFirst(inv) ==
    IF ~inv.args_ok THEN Ran(2, "usage", FALSE, <<>>)
    ELSE IF inv.cmd.write /\ inv.dry_run THEN Ran(SUCCESS, "dry_run", FALSE, <<>>)
    ELSE IF inv.cmd.write /\ inv.readonly THEN Ran(READONLY_BLOCKED, "readonly", FALSE, <<>>)
    ELSE IF ~inv.token THEN Ran(AUTH_ERROR, "auth", FALSE, <<>>)
    ELSE Ran(ApiExit(inv.api), "body", TRUE, <<inv.cmd.method>>)

\* cli/common.py pass_client, the wrapper, after click has parsed the
\* command line (an unusable command line ends the program with 2 before
\* the wrapper runs): the readonly check, the dry-run check, the client,
\* then the command's body
pass_client(inv) ==
    IF ~inv.args_ok THEN Ran(2, "usage", FALSE, <<>>)
    ELSE IF inv.cmd.write /\ inv.readonly THEN Ran(READONLY_BLOCKED, "readonly", FALSE, <<>>)
    ELSE IF inv.cmd.write /\ inv.dry_run THEN Ran(SUCCESS, "dry_run", FALSE, <<>>)
    ELSE IF ~inv.token THEN Ran(AUTH_ERROR, "auth", FALSE, <<>>)
    ELSE Ran(ApiExit(inv.api), "body", TRUE, <<inv.cmd.method>>)

(***************************************************************************)
(* SpecCli: one run of the program, for every command, every setting of    *)
(* the global flags, with and without a token, and every answer of the API *)
(***************************************************************************)
InitCli ==
    /\ Standalone
    /\ \E c \in Commands, ro \in BOOLEAN, dr \in BOOLEAN, ok \in BOOLEAN, tok \in BOOLEAN,
          a \in {"ok", "rate_limit", "api_error"} :
          input = [cmd |-> c, readonly |-> ro, dry_run |-> dr, args_ok |-> ok,
                   token |-> tok, api |-> a]

RunCommand ==
    /\ pc = "call"
    /\ call.fn = "none"
    /\ call' = [fn |-> "cli", exc |-> None, ret |-> pass_client(input)]
    /\ UNCHANGED <<srvVars, cache, issued, answered, ncalls, batchVars, diskVars, clock>>

SpecCli == InitCli /\ [][RunCommand]_vars

\* the client methods that create, update, delete or complete a record
ChangesCrm(method) ==
    method \in {"api_post", "update_task", "update_workflow_step", "delete_task",
                "delete_workflow", "create_workflow"}
               \cup {"create_contact", "update_contact", "delete_contact"}
               \cup {"create_event", "update_event", "delete_event"}
               \cup {"create_note", "update_note"}
               \cup {"create_opportunity", "update_opportunity", "delete_opportunity"}
               \cup {"create_project", "update_project", "delete_project"}

\* C15: under --readonly a command whose body changes a CRM record builds
\* no client and calls no client method, and it exits with READONLY_BLOCKED
\* whenever its command line is usable, with --dry-run or without; a
\* command that only reads does what it does without --readonly.
C15_ReadonlyBlocksWrites ==
    (call.fn = "cli" /\ input.readonly) =>
        /\ ChangesCrm(input.cmd.method) =>
              /\ ~call.ret.client
              /\ call.ret.requests = <<>>
              /\ input.args_ok => call.ret.exit = READONLY_BLOCKED
        /\ ~ChangesCrm(input.cmd.method) =>
              call.ret = pass_client([input EXCEPT !.readonly = FALSE])

\* "tasks complete" was run with --readonly and --dry-run and a token at
\* hand: it ended with READONLY_BLOCKED
C15_Witness ==
    /\ call.fn = "cli"
    /\ input.cmd.group = "tasks"
    /\ input.cmd.name = "complete"
    /\ input.readonly
    /\ input.dry_run
    /\ input.args_ok
    /\ input.token
    /\ call.ret.exit = READONLY_BLOCKED
    /\ call.ret.stage = "readonly"

(***************************************************************************)
(* SpecIsAfter: _is_after applied to bounded date texts and thresholds     *)
(***************************************************************************)
Offsets == {-1, 0, 1}

\* no text, the empty text, an unreadable one, texts without an offset and
\* texts with one
IsAfterRawChoices ==
    {RawAbsent, RawEmpty, RawJunk}
        \cup {RawIso(t) : t \in Times} \cup {RawDay(t) : t \in Times}
        \cup {RawWb(t, o) : t \in Times, o \in Offsets}
        \cup {RawIsoTz(t, o) : t \in Times, o \in Offsets}

ThresholdChoices ==
    {Naive(t) : t \in Times} \cup {Aware(t, o) : t \in Times, o \in Offsets}

InitIsAfter ==
    /\ Standalone
    /\ \E raw \in IsAfterRawChoices, th \in ThresholdChoices :
          input = [raw |-> raw, threshold |-> th]

CallIsAfter ==
    /\ pc = "call"
    /\ call.fn = "none"
    /\ call' = [fn |-> "_is_after", exc |-> None,
                ret |-> _is_after(input.raw, input.threshold)]
    /\ UNCHANGED <<srvVars, cache, issued, answered, ncalls, batchVars, diskVars, clock>>

SpecIsAfter == InitIsAfter /\ [][CallIsAfter]_vars

\* C17: _is_after is false for a date text that is absent, empty or
\* unreadable and false when text and threshold denote the same instant;
\* otherwise it is true exactly when the text denotes the later instant,
\* each side brought to UTC when it carries an offset and taken as it
\* stands when it carries none.
C17_LaterInstant ==
    Returned("_is_after") =>
        /\ ~HasInstant(input.raw) => ~call.ret
        /\ (HasInstant(input.raw)
               /\ InstantOf(input.raw) = ThresholdInstant(input.threshold)) => ~call.ret
        /\ HasInstant(input.raw) =>
              (call.ret <=> InstantOf(input.raw) > ThresholdInstant(input.threshold))

\* a text that is the earlier one on its face and the later one in UTC was
\* compared with a threshold that carries an offset, and found later
C17_Witness ==
    /\ Returned("_is_after")
    /\ input.raw = RawWb(1, -1)
    /\ input.threshold = Aware(2, 1)
    /\ call.ret

(***************************************************************************)
(* Text (export.py _html_to_markdown, _collapse_newlines,                  *)
(* _render_comments).  A text is a sequence of characters: "x" is a        *)
(* visible character, " " a blank, "NL" a line break, and a tag of an HTML *)
(* text is one element.  What the converter writes for a link, the marker  *)
(* "[n]" and the reference "[n]: url", is one visible element each.        *)
(***************************************************************************)
\* sixty visible characters in a row, as one element
LongRun == "x60"
ShortLine == 60

\* len(l): the number of characters of a line
RECURSIVE len(_)
len(l) == IF l = <<>> THEN 0 ELSE (IF Head(l) = LongRun THEN ShortLine ELSE 1) + len(Tail(l))
Tags == {"<p>", "</p>", "<br>", "<b>", "</b>", "<a>", "</a>", "<ul>", "</ul>", "<li>",
         "</li>", "<div>", "</div>"}

\* text.split("\n")
RECURSIVE SplitLines(_)
SplitLines(t) ==
    IF "NL" \notin Range(t) THEN <<t>>
    ELSE LET i == CHOOSE k \in DOMAIN t : t[k] = "NL" /\ \A j \in 1..(k - 1) : t[j] # "NL"
         IN  <<SubSeq(t, 1, i - 1)>> \o SplitLines(SubSeq(t, i + 1, Len(t)))

\* "\n".join(lines)
RECURSIVE JoinLines(_)
JoinLines(lines) ==
    IF lines = <<>> THEN <<>>
    ELSE IF Len(lines) = 1 THEN lines[1]
    ELSE lines[1] \o <<"NL">> \o JoinLines(Tail(lines))

\* _HTMLToMarkdownConverter: handle_starttag, handle_endtag and handle_data
\* over the elements of the text; c = [output, links, in_link, link_text]
RECURSIVE Feed(_, _)
Feed(t, c) ==
    IF t = <<>> THEN c
    ELSE Feed(Tail(t),
           CASE Head(t) \in {"<b>", "</b>"} -> [c EXCEPT !.output = @ \o <<"*", "*">>]
             [] Head(t) = "<br>" -> [c EXCEPT !.output = Append(@, "NL")]
             [] Head(t) = "<a>" -> [c EXCEPT !.in_link = TRUE, !.link_text = <<>>]
             [] Head(t) = "<ul>" -> [c EXCEPT !.output = Append(@, "NL")]
             [] Head(t) = "<li>" -> [c EXCEPT !.output = @ \o <<"-", " ">>]
             [] Head(t) = "</p>" -> [c EXCEPT !.output = @ \o <<"NL", "NL">>]
             [] Head(t) = "</a>" /\ c.in_link ->
                    [c EXCEPT !.output = @ \o c.link_text \o <<" ", "[n]">>,
                              !.links = @ + 1,
                              !.in_link = FALSE]
             [] Head(t) = "</li>" -> [c EXCEPT !.output = Append(@, "NL")]
             [] Head(t) \in Tags -> c
             [] OTHER -> IF c.in_link THEN [c EXCEPT !.link_text = Append(@, Head(t))]
                         ELSE [c EXCEPT !.output = Append(@, Head(t))])

\* the reference lines get_result appends, one for each link
RECURSIVE References(_)
References(n) == IF n = 0 THEN <<>> ELSE References(n - 1) \o <<"[n]: url", "NL">>

\* _HTMLToMarkdownConverter.get_result
get_result(c) ==
    IF c.links > 0 THEN strip(rstrip(c.output) \o <<"NL", "NL">> \o References(c.links))
    ELSE strip(c.output)

\* sorted(len(l) for l in content_lines)[len(content_lines) // 2]
MedianLen(content) ==
    CHOOSE v \in {len(content[k]) : k \in DOMAIN content} :
        /\ Cardinality({k \in DOMAIN content : len(content[k]) <= v}) > Len(content) \div 2
        /\ \A w \in {len(content[k]) : k \in DOMAIN content} :
              Cardinality({k \in DOMAIN content : len(content[k]) <= w}) > Len(content) \div 2
                  => v <= w

\* a run of blank lines before a line loses one line
RECURSIVE CollapseRunsByOne(_, _)
CollapseRunsByOne(lines, blank_run) ==
    IF lines = <<>> THEN <<>>
    ELSE IF Head(lines) = <<>> THEN CollapseRunsByOne(Tail(lines), blank_run + 1)
    ELSE [k \in 1..(IF blank_run > 0 THEN blank_run - 1 ELSE 0) |-> <<>>]
         \o <<Head(lines)>> \o CollapseRunsByOne(Tail(lines), 0)

\* the normal mode of _collapse_newlines: a run of blank lines before a
\* line becomes one blank line, the blank lines at the end are dropped
RECURSIVE CollapseRuns(_, _)
CollapseRuns(lines, blank_run) ==
    IF lines = <<>> THEN <<>>
    ELSE IF Head(lines) = <<>> THEN CollapseRuns(Tail(lines), blank_run + 1)
    ELSE (IF blank_run > 0 THEN <<<<>>, Head(lines)>> ELSE <<Head(lines)>>)
         \o CollapseRuns(Tail(lines), 0)

\* the lines of a text, each without the whitespace at its end
StrippedLines(t) == [k \in DOMAIN SplitLines(t) |-> rstrip(SplitLines(t)[k])]
ContentLines(t) == SelectSeq(StrippedLines(t), LAMBDA l : strip(l) # <<>>)

CompactWithoutMinimum(t) ==
    /\ MedianLen(ContentLines(t)) < ShortLine
    /\ (Len(StrippedLines(t)) - Len(ContentLines(t))) * 2 >= Len(ContentLines(t))

\* lines 294-299: the mode, for a text with a content line
Compact(t) ==
    /\ MedianLen(ContentLines(t)) < ShortLine
    /\ (Len(StrippedLines(t)) - Len(ContentLines(t))) * 2 >= Len(ContentLines(t))
    /\ Len(ContentLines(t)) >= 4

\* export.py _collapse_newlines
_collapse_newlines(t) ==
    IF ContentLines(t) = <<>> THEN strip(t)
    ELSE IF Compact(t)
    THEN JoinLines(ContentLines(t))
    ELSE JoinLines(CollapseRuns(StrippedLines(t), 0))

\* export.py _html_to_markdown
_html_to_markdown(html_str) ==
    IF html_str = <<>> THEN <<>>
    ELSE IF Range(html_str) \cap Tags = {} THEN html_str
    ELSE _collapse_newlines(
            get_result(Feed(html_str, [output |-> <<>>, links |-> 0, in_link |-> FALSE,
                                       link_text |-> <<>>])))

\* A body field: absent, a string, or a mapping that may have html and text
BodyAbsent == [t |-> "absent", html |-> None, text |-> None]
BodyStr(x) == [t |-> "str", html |-> None, text |-> Some(x)]
BodyDict(h, x) == [t |-> "dict", html |-> h, text |-> x]

\* export.py _extract_body, on comment.get("body", "")
_extract_body(body_field) ==
    CASE body_field.t = "absent" -> <<>>
      [] body_field.t = "str" -> Val(body_field.text)
      [] body_field.t = "dict" ->
            IF ~IsNone(body_field.html) THEN Val(body_field.html)
            ELSE IF ~IsNone(body_field.text) THEN Val(body_field.text)
            ELSE <<>>

\* export.py _format_date, as the elements it puts in a line: the day of a
\* date that parses, the text itself when it does not, nothing when there
\* is none
_format_date(raw) ==
    IF ~IsNone(_parse_wb_date(raw)) THEN <<"YYYY-MM-DD">>
    ELSE IF raw.fmt = "junk" THEN <<"x">>
    ELSE <<>>

CommentBodyUnstripped(comment) ==
    IF _extract_body(comment.body) # <<>>
    THEN _html_to_markdown(_extract_body(comment.body))
    ELSE <<>>

\* lines 741-742: the body of a comment as it is rendered
CommentBody(comment) ==
    IF _extract_body(comment.body) # <<>>
    THEN strip(_html_to_markdown(_extract_body(comment.body)))
    ELSE <<>>

\* lines 743-745: the line of a comment
CommentLine(comment) ==
    <<">", " ", "*", "*", comment.creator, "*", "*">>
        \o (IF _format_date(comment.created_at) # <<>>
            THEN <<" ", "(">> \o _format_date(comment.created_at) \o <<")">>
            ELSE <<>>)
        \o <<":", " ">> \o CommentBody(comment)

\* export.py _render_comments
_render_comments(comments) ==
    JoinLines([k \in DOMAIN SelectSeq(comments, LAMBDA c : CommentBody(c) # <<>>) |->
                 CommentLine(SelectSeq(comments, LAMBDA c : CommentBody(c) # <<>>)[k])])

(***************************************************************************)
(* SpecComments: _render_comments applied to bounded comment lists         *)
(***************************************************************************)
\* bodies with nothing to show, in each of the ways there are, and bodies
\* with something to show
BodyChoices ==
    {BodyAbsent, BodyStr(<<>>), BodyStr(<<" ", "NL">>), BodyStr(<<"<p>", "</p>">>),
     BodyStr(<<"<p>", " ", "</p>", "<br>">>), BodyStr(<<"<div>", "<ul>", "</ul>">>),
     BodyDict(None, None), BodyDict(Some(<<>>), Some(<<>>)), BodyDict(Some(<<>>), Some(<<"x">>)),
     BodyDict(None, Some(<<"<br>">>))}
    \cup
    {BodyStr(<<"x">>), BodyStr(<<"<p>", "x", "</p>", "<p>", "x", "</p>">>),
     BodyStr(<<"<b>", "</b>">>), BodyStr(<<"<a>", "x", "</a>">>),
     BodyStr(<<" ", "x", "NL", "NL", "NL", "x", " ">>),
     BodyDict(None, Some(<<"x">>)), BodyDict(Some(<<"<li>", "</li>">>), Some(<<>>))}

CommentBy(who, created, body) == [creator |-> who, created_at |-> created, body |-> body]

\* no comment, one, or two by different creators
InitComments ==
    /\ Standalone
    /\ \/ input = <<>>
       \/ \E d \in {RawAbsent, RawDay(1), RawJunk}, b \in BodyChoices :
             input = <<CommentBy("c1", d, b)>>
       \/ \E b1 \in BodyChoices, b2 \in BodyChoices :
             input = <<CommentBy("c1", RawDay(1), b1), CommentBy("c2", RawAbsent, b2)>>

RenderComments ==
    /\ pc = "call"
    /\ call.fn = "none"
    /\ call' = [fn |-> "_render_comments", exc |-> None, ret |-> _render_comments(input)]
    /\ UNCHANGED <<srvVars, cache, issued, answered, ncalls, batchVars, diskVars, clock>>

SpecComments == InitComments /\ [][RenderComments]_vars

\* the text of a body field: the html of a mapping when it has one
BodyText(body) ==
    IF body.t = "dict" /\ ~IsNone(body.html) THEN Val(body.html)
    ELSE IF IsNone(body.text) THEN <<>> ELSE Val(body.text)

\* the text holds nothing but whitespace and markup that shows nothing
NothingToShow(t) ==
    Range(t) \subseteq Whitespace \cup {"<p>", "</p>", "<br>", "<ul>", "</ul>", "<div>", "</div>"}

\* the normalized body of the comment is empty
EmptyBody(comment) ==
    \/ NothingToShow(BodyText(comment.body))
    \/ strip(_html_to_markdown(BodyText(comment.body))) = <<>>

\* C18: a comment whose normalized body is empty (no body, an empty
\* string, an empty html/text pair, markup that comes to nothing) leaves no
\* line in the rendering, and a list of such comments alone renders to the
\* empty string.
C18_EmptyBodyNoLine ==
    Returned("_render_comments") =>
        /\ \A k \in DOMAIN input :
              EmptyBody(input[k]) => input[k].creator \notin Range(call.ret)
        /\ (\A k \in DOMAIN input : EmptyBody(input[k])) => call.ret = <<>>

\* two comments were rendered, the first with markup that comes to nothing
\* and the second with a text: the rendering is the line of the second
C18_Witness ==
    /\ Returned("_render_comments")
    /\ Len(input) = 2
    /\ input[1].body = BodyStr(<<"<p>", " ", "</p>", "<br>">>)
    /\ input[2].body = BodyStr(<<"x">>)
    /\ call.ret = <<">", " ", "*", "*", "c2", "*", "*", ":", " ", "x">>

(***************************************************************************)
(* SpecCollapse: _collapse_newlines applied to a text of up to MaxLines    *)
(* lines, and then to what it returned                                     *)
(***************************************************************************)
MaxLines == 6

\* a blank line, a line of blanks, two short lines, one of them with a
\* blank at its end, and a long line
LineChoices == {<<>>, <<" ">>, <<"x">>, <<"-", " ">>, <<LongRun>>}

RECURSIVE TextsOf(_)
TextsOf(n) ==
    IF n = 1 THEN LineChoices
    ELSE {l \o <<"NL">> \o t : l \in LineChoices, t \in TextsOf(n - 1)}

InitCollapse ==
    /\ Standalone
    /\ \E n \in 1..MaxLines : input \in TextsOf(n)

CollapseNewlines ==
    /\ pc = "call"
    /\ call.fn = "none"
    /\ call' = [fn |-> "_collapse_newlines", exc |-> None, ret |-> _collapse_newlines(input)]
    /\ UNCHANGED <<srvVars, cache, issued, answered, ncalls, batchVars, diskVars, clock>>

\* the text returned is compacted again
CollapseAgain ==
    /\ pc = "call"
    /\ call.fn = "_collapse_newlines"
    /\ "again" \notin DOMAIN call
    /\ input' = call.ret
    /\ call' = [fn |-> "_collapse_newlines", exc |-> None,
                ret |-> _collapse_newlines(call.ret), again |-> TRUE]
    /\ UNCHANGED <<srvUpdated, srvContacts, srvTasks, srvOpps, srvComments, srvActivity,
                   cache, issued, answered, ncalls, batchVars, diskVars, clock>>

SpecCollapse == InitCollapse /\ [][CollapseNewlines \/ CollapseAgain]_vars

\* C24: blank-line compaction is idempotent: applied to its own output it
\* returns that output unchanged, whichever mode the first application
\* chose.
C24_Idempotent ==
    (Returned("_collapse_newlines") /\ "again" \in DOMAIN call) => call.ret = input

\* the output of the strip-all mode, compacted again
C24_Witness ==
    /\ Returned("_collapse_newlines")
    /\ "again" \in DOMAIN call
    /\ Len(ContentLines(input)) >= 4
    /\ Len(StrippedLines(input)) = Len(ContentLines(input))
    /\ call.ret = input

\* a line with no visible character
Blank(l) == \A k \in DOMAIN l : l[k] \in Whitespace

\* the positions of the non-blank lines of a text, in order
NonBlankAt(t) ==
    Let(SplitLines(t), LAMBDA ls :
        SelectSeq([k \in DOMAIN ls |-> k], LAMBDA k : ~Blank(ls[k])))

\* the non-blank lines of a text, in order, each up to the blanks at its end
NonBlankLines(t) ==
    Let(SplitLines(t), LAMBDA ls :
        Let(NonBlankAt(t), LAMBDA at : [i \in DOMAIN at |-> rstrip(ls[at[i]])]))

\* the number of blank lines between the i-th non-blank line and the next
BlankLinesAfter(t, i) == NonBlankAt(t)[i + 1] - NonBlankAt(t)[i] - 1

BlankLineCount(t) == Len(SplitLines(t)) - Len(NonBlankAt(t))

\* the conditions of the strip-all mode: at least 4 non-blank lines, a
\* median length under 60, blank lines at least half as numerous
StripAllConditions(t) ==
    /\ Len(NonBlankAt(t)) >= 4
    /\ MedianLen(NonBlankLines(t)) < ShortLine
    /\ 2 * BlankLineCount(t) >= Len(NonBlankAt(t))

\* C25: blank-line compaction never removes a non-blank line and never
\* changes the order of the non-blank lines.  Under the strip-all
\* conditions the result has no blank line; otherwise, and always for a
\* text with fewer than 4 non-blank lines, each run of blank lines between
\* two content lines becomes exactly one blank line (and lines with none
\* between them stay adjacent).
C25_ContentKeptModeByRule ==
    (Returned("_collapse_newlines") /\ "again" \notin DOMAIN call) =>
        /\ NonBlankLines(call.ret) = NonBlankLines(input)
        /\ NonBlankAt(input) # <<>> =>
              IF StripAllConditions(input)
              THEN BlankLineCount(call.ret) = 0
              ELSE \E before \in {NonBlankAt(input)}, after \in {NonBlankAt(call.ret)} :
                      \A i \in 1..(Len(before) - 1) :
                          after[i + 1] - after[i] - 1 =
                              IF before[i + 1] - before[i] - 1 > 0 THEN 1 ELSE 0

\* four short lines with two blank lines among them lose the blank lines;
\* the same with long lines would keep one
C25_Witness ==
    /\ Returned("_collapse_newlines")
    /\ "again" \notin DOMAIN call
    /\ Len(NonBlankAt(input)) = 4
    /\ BlankLineCount(input) = 2
    /\ BlankLinesAfter(input, 2) = 2
    /\ StripAllConditions(input)
    /\ Len(SplitLines(call.ret)) = 4

(***************************************************************************)
(* Opportunities (export.py _render_opportunity).  A JSON value is kept by *)
(* its kind; a rendered block is a sequence of lines, a line a sequence of *)
(* pieces of text.                                                         *)
(***************************************************************************)
VAbsent == [t |-> "absent"]
VNull == [t |-> "null"]
VInt(n) == [t |-> "int", n |-> n]
VStr(x) == [t |-> "str", s |-> x]
\* a mapping: its name entry, and whether it has other entries
VDict(name, more) == [t |-> "dict", name |-> name, more |-> more]

\* bool(v)
Truthy(v) ==
    CASE v.t \in {"absent", "null"} -> FALSE
      [] v.t = "int" -> v.n # 0
      [] v.t = "str" -> v.s # ""
      [] v.t = "dict" -> v.name.t # "absent" \/ v.more

\* f"{v}"
Format(v) ==
    CASE v.t = "str" -> v.s
      [] v.t = "int" -> ToString(v.n)
      [] v.t = "null" -> "None"
      [] OTHER -> "{...}"

\* a or b, on date texts
RawOr(a, b) == IF a.fmt \in {"absent", "empty"} THEN b ELSE a

\* lines 911-925: the amount in brackets, from the amounts list or else
\* from the top-level amount (its digits, without the grouping commas)
AmountStr(opp) ==
    IF Truthy(opp.first_amount) THEN <<" (", Format(opp.first_amount), ")">>
    ELSE IF Truthy(opp.amount) THEN <<" ($", Format(opp.amount), ")">>
    ELSE <<>>

\* lines 929-933: the link, when there is a workspace and an id
WealthboxLink(opp, workspace_id) ==
    IF workspace_id # 0 /\ Truthy(opp.id)
    THEN << <<"*[View in Wealthbox](https://www.crmworkspace.com/", ToString(workspace_id),
              "/opportunities/", Format(opp.id), ")*">> >>
    ELSE <<>>

\* line 936: opp.get("stage_name") or opp.get("stage")
StageOrStageName(opp) == IF Truthy(opp.stage_name) THEN opp.stage_name ELSE opp.stage

\* lines 938-939: stage.get("name", "") of a mapping
StageName(stage) ==
    IF stage.t = "dict"
    THEN (IF stage.name.t = "absent" THEN VStr("") ELSE stage.name)
    ELSE stage

\* lines 937-942: the Stage part
StagePart(opp) ==
    IF Truthy(StageOrStageName(opp)) /\ StageName(StageOrStageName(opp)).t # "int"
    THEN << <<"Stage: ", Format(StageName(StageOrStageName(opp)))>> >>
    ELSE <<>>

\* lines 943-944: the Close Date part
CloseDatePart(opp) ==
    IF opp.target_close.fmt \notin {"absent", "empty"}
    THEN << <<"Close Date: ">> \o _format_date(opp.target_close) >>
    ELSE <<>>

\* " | ".join(parts)
RECURSIVE JoinParts(_)
JoinParts(parts) ==
    IF parts = <<>> THEN <<>>
    ELSE IF Len(parts) = 1 THEN parts[1]
    ELSE parts[1] \o <<" | ">> \o JoinParts(Tail(parts))

\* export.py _render_opportunity: the lines of the block
_render_opportunity(opp, workspace_id) ==
    << <<"### Opportunity -- ", Format(opp.name)>> \o AmountStr(opp) \o <<" -- ">>
          \o _format_date(RawOr(opp.target_close, opp.created_at)) >>
    \o WealthboxLink(opp, workspace_id)
    \o (IF StagePart(opp) \o CloseDatePart(opp) # <<>>
        THEN << <<"*">> \o JoinParts(StagePart(opp) \o CloseDatePart(opp)) \o <<"*">> >>
        ELSE <<>>)

(***************************************************************************)
(* SpecOpportunity: _render_opportunity applied to bounded opportunities   *)
(***************************************************************************)
\* the identifier of a stage, apart from every other number of the record
StageId == 144686

StageChoices ==
    {VAbsent, VNull, VInt(0), VInt(StageId), VStr(""), VStr("Proposal"),
     VDict(VStr("Proposal"), TRUE), VDict(VStr("Proposal"), FALSE), VDict(VAbsent, FALSE),
     VDict(VAbsent, TRUE), VDict(VNull, TRUE), VDict(VInt(StageId), TRUE), VDict(VStr(""), TRUE)}

StageNameChoices == {VAbsent, VStr(""), VStr("Won"), VInt(StageId)}

InitOpportunity ==
    /\ Standalone
    /\ \E st \in StageChoices, sn \in StageNameChoices, tc \in {RawAbsent, RawDay(1)},
          am \in {VAbsent, VInt(1500)}, fa \in {VAbsent, VStr("$100")}, ws \in {0, 9} :
          input = [opp |-> [id |-> VInt(3), name |-> VStr("Deal"), stage |-> st,
                            stage_name |-> sn, target_close |-> tc,
                            created_at |-> RawJunk, amount |-> am, first_amount |-> fa],
                   workspace_id |-> ws]

RenderOpportunity ==
    /\ pc = "call"
    /\ call.fn = "none"
    /\ call' = [fn |-> "_render_opportunity", exc |-> None,
                ret |-> _render_opportunity(input.opp, input.workspace_id)]
    /\ UNCHANGED <<srvVars, cache, issued, answered, ncalls, batchVars, diskVars, clock>>

SpecOpportunity == InitOpportunity /\ [][RenderOpportunity]_vars

\* the pieces of text of a block
PiecesOf(block) == UNION {Range(block[k]) : k \in DOMAIN block}

\* the stage the record gives: stage_name when it says something, else stage
GivenStage(opp) == IF Truthy(opp.stage_name) THEN opp.stage_name ELSE opp.stage

\* the stage is a name, or a mapping that holds one
HasStageName(opp) ==
    \/ GivenStage(opp).t = "str" /\ GivenStage(opp).s # ""
    \/ /\ GivenStage(opp).t = "dict"
       /\ GivenStage(opp).name.t = "str"
       /\ GivenStage(opp).name.s # ""

StageNameOf(opp) ==
    IF GivenStage(opp).t = "str" THEN GivenStage(opp).s ELSE GivenStage(opp).name.s

\* a stage given as a bare integer leaves no Stage line and its digits are
\* nowhere in the block
C19_IntegerStageHidden ==
    (Returned("_render_opportunity") /\ GivenStage(input.opp).t = "int") =>
        /\ "Stage: " \notin PiecesOf(call.ret)
        /\ ToString(GivenStage(input.opp).n) \notin PiecesOf(call.ret)

\* a stage given by name has its Stage line, with the name
C19_NamedStageShown ==
    (Returned("_render_opportunity") /\ HasStageName(input.opp)) =>
        \E k \in DOMAIN call.ret : \E j \in 1..(Len(call.ret[k]) - 1) :
            /\ call.ret[k][j] = "Stage: "
            /\ call.ret[k][j + 1] = StageNameOf(input.opp)

\* C19: the block of an opportunity has a Stage line only when the stage is
\* a name or a mapping that holds a name, and the line shows that name; a
\* stage that is a bare integer leaves no Stage line and its digits are
\* nowhere in the block.
C19_StageLineOnlyForNames ==
    /\ C19_IntegerStageHidden
    /\ C19_NamedStageShown
    /\ (Returned("_render_opportunity") /\ "Stage: " \in PiecesOf(call.ret)) =>
          HasStageName(input.opp)

====
